---- MODULE Spec2Model ----
(***************************************************************************)
(* Vexa bot lifecycle manager (services/bot-manager): request_bot,         *)
(* stop_bot, bot_exit_callback, their background tasks, the relational     *)
(* store rows they touch (Meeting, MeetingSession) and the container       *)
(* driver's containers.                                                    *)
(*                                                                         *)
(* The manager is one asyncio event loop: a handler runs without           *)
(* interruption from one `await` to the next, so each action below is the  *)
(* code of one handler between two suspension points, taken at the moment  *)
(* its store / driver round trip takes effect.  The driver calls made      *)
(* through requests_unixsocket are synchronous and do not suspend.         *)
(***************************************************************************)
EXTENDS Integers, Sequences, FiniteSets, TLC

\* ---------------------------------------------------------------- bounds
\* Rows the Meeting table may hold (request_bot calls that insert one).
MaxMeetings == 2
\* Requests (of any of the three endpoints) received in one behaviour.
MaxRequests == MaxMeetings + 1

\* Ticks of the wall clock in one behaviour.
MaxTime == 2
\* Stream messages the consumer is handed in one behaviour.
MaxMessages == 2

\* Slots for HTTP handlers suspended at the same time.
Handlers == {1, 2}

\* ----------------------------------------------------------- input domains
Users == {"u1"}
\* (platform, native_meeting_id) pairs a request may name.
Keys == {"k1", "k2"}
ExitCodes == {0, 1}

\* users.max_concurrent_bots, read by the limit check.
max_concurrent_bots(u) == 1

\* Meeting.status values.
NonTerminal == {"requested", "active", "stopping"}
Terminal == {"completed", "failed", "error"}

VARIABLES
  meetings,    \* Meeting table: sequence of rows, id = index (created_at order)
  sessions,    \* MeetingSession table: sequence of rows in insertion order
  containers,  \* container engine: sequence of containers, container id = index
  handlers,    \* suspended HTTP handlers, by slot
  tasks,       \* scheduled background tasks not yet run
  published,   \* commands published on bot_commands:<uid>
  last,        \* the handler that answered last, and its response
  served,      \* number of requests received so far
  now,         \* wall clock, as datetime.now() / utcnow() read it
  consumer,    \* the stream consumer: the message in hand and its locals
  segments,    \* the hashes meeting:<id>:segments, one record per field
  ttl,         \* time to live left on each hash (0: the key has none)
  active_meetings,  \* the set active_meetings
  transcriptions,   \* Transcription table: sequence of rows in insert order
  promoter,    \* process_redis_to_postgres: position and locals
  reader,      \* a transcript read between its store and its hash query
  started,     \* per session uid, the timestamp of the last session_start
               \* event the consumer was handed (-1: none)
  runner,      \* run_all_tasks: position, directory listing and db session
  delivered,   \* stream entries handed to the consumer group: message,
               \* whether idle beyond the timeout, whether acknowledged
  loop         \* the consumer's reading code: the startup check of pending
               \* entries, then the main loop, with the entry in hand

manager == <<meetings, sessions, containers, handlers, tasks, published, last,
             served, runner>>
group == <<delivered, loop>>
collector == <<now, consumer, segments, ttl, active_meetings, transcriptions,
               promoter, reader, started, group>>
vars == <<meetings, sessions, containers, handlers, tasks, published, last,
          served, now, consumer, segments, ttl, active_meetings,
          transcriptions, promoter, reader, started, runner, delivered,
          loop>>

IdleHandler ==
  [op |-> "none", pc |-> "idle", user |-> "none", key |-> "none",
   uid |-> 0, exit_code |-> 0, existing |-> 0, ecid |-> 0,
   mid |-> 0, seen |-> "none", outcome |-> "none", cid |-> 0, resp |-> 0]

\* Session uids: the connection id of the launch of meeting m is written m;
\* ReconnectUid is an id a bot made up for a later connection of its own.
ReconnectUid == MaxMeetings + 1
SessionUids == 1..ReconnectUid

\* The consumer with no message in hand.
IdleConsumer ==
  [pc |-> "idle", n |-> 0, type |-> "none", mid |-> 0, uid |-> 0, ts |-> 0,
   start |-> 0, key |-> 0, text |-> <<>>, language |-> <<>>, end_time |-> 0,
   row |-> 0, ret |-> TRUE]

\* The reading code before it has read anything: id is the entry in hand,
\* n0 the number of messages processed when it was taken up, restarts the
\* number of restarts of the service.
IdleLoop == [pc |-> "idle", id |-> 0, n0 |-> 0, restarts |-> 0]

\* The promoter asleep between two cycles.
IdlePromoter ==
  [pc |-> "sleep", todo |-> {}, cur |-> 0, batch |-> <<>>, del |-> {}]

IdleReader == [pc |-> "idle", mid |-> 0, session_times |-> {}, rows |-> 0]

\* run_all_tasks not running: no listing read, nothing in its db session.
IdleRunner ==
  [pc |-> "idle", mid |-> 0, listing |-> <<>>, log |-> <<>>, ran |-> <<>>,
   dirty |-> {}, mutated |-> {}, committed |-> {}, end |-> "none"]

\* The collector before its first message: empty hashes, empty set, empty
\* Transcription table.
CollectorStart ==
  /\ now = 0
  /\ consumer = IdleConsumer
  /\ segments = {}
  /\ ttl = [m \in 1..MaxMeetings |-> 0]
  /\ active_meetings = {}
  /\ transcriptions = <<>>
  /\ promoter = IdlePromoter
  /\ reader = IdleReader
  /\ started = [u \in SessionUids |-> -1]
  /\ delivered = {}
  /\ loop = IdleLoop

Init ==
  /\ CollectorStart
  /\ runner = IdleRunner
  /\ meetings = <<>>
  /\ sessions = <<>>
  /\ containers = <<>>
  /\ handlers = [h \in Handlers |-> IdleHandler]
  /\ tasks = {}
  /\ published = {}
  /\ served = 0
  /\ last = [op |-> "none", resp |-> 0, mid |-> 0, outcome |-> "none"]

\* ---------------------------------------------------------------- helpers
Max(S) == CHOOSE x \in S : \A y \in S : y <= x
Min(S) == CHOOSE x \in S : \A y \in S : x <= y

\* A request is taken by the lowest free handler slot.
CanStart(h) ==
  /\ served < MaxRequests
  /\ handlers[h].pc = "idle"
  /\ \A g \in Handlers : g < h => handlers[g].pc # "idle"

\* Keys are interchangeable: "k2" is named only after "k1" has been.
KeyUsable(k) ==
  \/ k = "k1"
  \/ \E m \in DOMAIN meetings : meetings[m].key = "k1"
  \/ \E g \in Handlers : handlers[g].key = "k1"

\* request_bot handlers that have not inserted their Meeting row yet.
PendingInserts ==
  Cardinality({g \in Handlers :
     handlers[g].op = "request_bot" /\ handlers[g].mid = 0})

\* Handler h (locals `me` at its end) answers `resp`.
Respond(h, me, resp) ==
  /\ handlers' = [handlers EXCEPT ![h] = IdleHandler]
  /\ last' = [op |-> me.op, resp |-> resp, mid |-> me.mid, outcome |-> me.outcome]

SetMeeting(m, fields) ==
  [meetings EXCEPT ![m] = [f \in DOMAIN meetings[m] |->
      IF f \in DOMAIN fields THEN fields[f] ELSE meetings[m][f]]]

\* ------------------------------------------------------- container driver
\* GET /containers/json filtered by label vexa.user_id=<u>, status running.
ListRunning(u) ==
  {c \in DOMAIN containers :
      containers[c].user = u /\ containers[c].state = "running"}

\* inspect(container_id): running / not running.
verify_container_running(c) ==
  c \in DOMAIN containers /\ containers[c].state = "running"

\* Mutant of LimitReached: the comparison is off by one.
LimitReachedOffByOne(u) ==
  Cardinality(ListRunning(u)) > max_concurrent_bots(u)

\* The limit check of start_bot_container.
LimitReached(u) == Cardinality(ListRunning(u)) >= max_concurrent_bots(u)

\* ------------------------------------------------------------ request_bot
\* select(Meeting) ... status in (requested, active, stopping)
\*   order by created_at desc limit 1
existing_meeting(u, k) ==
  LET S == {m \in DOMAIN meetings :
              /\ meetings[m].user = u
              /\ meetings[m].key = k
              /\ meetings[m].status \in NonTerminal}
  IN IF S = {} THEN 0 ELSE Max(S)

\* Where request_bot goes after the duplicate lookup found row e (0: none).
AfterLookup(e) ==
  IF e = 0 THEN "rb_insert"
  ELSE IF meetings[e].cid # 0 THEN "rb_verify"
  ELSE "rb_mark"

\* POST /bots arrives; the duplicate lookup runs.
request_bot(h, u, k) ==
  /\ UNCHANGED <<collector, runner>>
  /\ CanStart(h)
  /\ KeyUsable(k)
  /\ Len(meetings) + PendingInserts < MaxMeetings

  /\ served' = served + 1
  /\ LET e == existing_meeting(u, k) IN
     handlers' = [handlers EXCEPT ![h] =
        [IdleHandler EXCEPT !.op = "request_bot", !.user = u, !.key = k,
           !.existing = e,
           !.ecid = IF e = 0 THEN 0 ELSE meetings[e].cid,
           !.pc = AfterLookup(e)]]
  /\ UNCHANGED <<meetings, sessions, containers, tasks, published, last>>

\* Mutant of rb_verify: the test of the driver's answer is inverted.
rb_verify_inverted(h) ==
  /\ UNCHANGED <<collector, runner>>
  /\ handlers[h].pc = "rb_verify"
  /\ \E driver_ok \in BOOLEAN :
       LET me == handlers[h] IN
       IF ~driver_ok
         THEN Respond(h, [me EXCEPT !.outcome = "verify_error"], 500)
       ELSE IF ~verify_container_running(me.ecid)
         THEN Respond(h, [me EXCEPT !.outcome = "duplicate"], 409)
       ELSE /\ handlers' = [handlers EXCEPT ![h].pc = "rb_mark"]
            /\ UNCHANGED last
  /\ UNCHANGED <<meetings, sessions, containers, tasks, published, served>>

\* await verify_container_running(existing_meeting.bot_container_id):
\* the driver call fails (500), the container runs (409), or it is gone.
rb_verify(h) ==
  /\ UNCHANGED <<collector, runner>>
  /\ handlers[h].pc = "rb_verify"
  /\ \E driver_ok \in BOOLEAN :
       LET me == handlers[h] IN
       IF ~driver_ok
         THEN Respond(h, [me EXCEPT !.outcome = "verify_error"], 500)
       ELSE IF verify_container_running(me.ecid)
         THEN Respond(h, [me EXCEPT !.outcome = "duplicate"], 409)
       ELSE /\ handlers' = [handlers EXCEPT ![h].pc = "rb_mark"]
            /\ UNCHANGED last
  /\ UNCHANGED <<meetings, sessions, containers, tasks, published, served>>

\* Mutant of rb_mark: the stale row is taken over for the new bot instead of
\* being marked failed and replaced.
rb_mark_reuses_row(h) ==
  /\ UNCHANGED <<collector, runner>>
  /\ handlers[h].pc = "rb_mark"
  /\ handlers' = [handlers EXCEPT ![h].pc = "rb_refresh",
                                  ![h].mid = handlers[h].existing]
  /\ UNCHANGED <<meetings, sessions, containers, tasks, published, last,
                 served>>

\* existing_meeting.status = 'failed'; end_time = utcnow(); commit
rb_mark(h) ==
  /\ UNCHANGED <<collector, runner>>
  /\ handlers[h].pc = "rb_mark"
  /\ meetings' = SetMeeting(handlers[h].existing,
                            [status |-> "failed", end_time |-> TRUE])
  /\ handlers' = [handlers EXCEPT ![h].pc = "rb_insert"]
  /\ UNCHANGED <<sessions, containers, tasks, published, last, served>>

\* db.add(Meeting(status='requested')); commit
rb_insert(h) ==
  /\ UNCHANGED <<collector, runner>>
  /\ handlers[h].pc = "rb_insert"
  /\ meetings' = Append(meetings,
       [user |-> handlers[h].user, key |-> handlers[h].key,
        status |-> "requested", cid |-> 0,
        start_time |-> FALSE, end_time |-> FALSE])
  /\ handlers' = [handlers EXCEPT ![h].pc = "rb_refresh",
                                  ![h].mid = Len(meetings) + 1]
  /\ UNCHANGED <<sessions, containers, tasks, published, last, served>>

\* db.refresh(new_meeting): the session's copy of the row (expire_on_commit
\* is off, so this copy is what later code of the handler sees).
rb_refresh(h) ==
  /\ UNCHANGED <<collector, runner>>
  /\ handlers[h].pc = "rb_refresh"
  /\ handlers' = [handlers EXCEPT ![h].pc = "rb_launch",
                                  ![h].seen = meetings[handlers[h].mid].status]
  /\ UNCHANGED <<meetings, sessions, containers, tasks, published, last, served>>

\* Background task record: kind "session" (a = meeting id, b = session uid),
\* "stop" (a = container id), "post" (a = meeting id).
Task(kind, a, b) == [kind |-> kind, a |-> a, b |-> b]

\* What start_bot_container can do once the limit check has passed:
\* the create call fails, the start call is not acknowledged with 204, or
\* the container runs.
DriverOutcomes == {"create_error", "start_error", "run"}

\* connection_id = str(uuid.uuid4()): one fresh id per launch.  Every launch
\* is for a Meeting row of its own, whose id stands for the uuid.
NewConnectionId(mid) == mid

\* Mutant of NewContainer: the vexa.user_id label is not set.
NewContainerUnlabelled(me, state) ==
  [user |-> "none", meeting |-> me.mid, uid |-> NewConnectionId(me.mid),
   state |-> state]

\* A container as created by start_bot_container for handler `me`:
\* label vexa.user_id, name vexa-bot-<meeting_id>-..., connectionId.
NewContainer(me, state) ==
  [user |-> me.user, meeting |-> me.mid, uid |-> NewConnectionId(me.mid),
   state |-> state]

\* Mutant of Reject: the error is returned without touching the row.
RejectLeavesRow(h, me, resp) == Respond(h, me, resp)

\* The except-HTTPException handler of request_bot: the session's copy of the
\* row decides whether the row is set to 'error' before the error is returned.
Reject(h, me, resp) ==
  IF me.seen \in Terminal
    THEN Respond(h, me, resp)
    ELSE /\ handlers' = [handlers EXCEPT ![h] =
                            [me EXCEPT !.pc = "rb_error", !.resp = resp]]
         /\ UNCHANGED last

\* container_id, connection_id = await start_bot_container(...): user
\* lookup, limit check, create and start, all without suspension; then the
\* code of request_bot up to its next commit.
rb_launch(h) ==
  /\ UNCHANGED <<collector, runner>>
  /\ handlers[h].pc = "rb_launch"
  /\ \E list_ok \in BOOLEAN, outcome \in DriverOutcomes :
       LET me == handlers[h]
           newc == Len(containers) + 1
       IN
       IF ~list_ok THEN
         \* the container list could not be read: HTTPException 500
         /\ Reject(h, [me EXCEPT !.outcome = "list_error"], 500)
         /\ UNCHANGED <<containers, tasks>>
       ELSE IF LimitReached(me.user) THEN
         /\ Reject(h, [me EXCEPT !.outcome = "limit"], 403)
         /\ UNCHANGED <<containers, tasks>>
       ELSE IF outcome = "create_error" THEN
         /\ handlers' = [handlers EXCEPT ![h] =
              [me EXCEPT !.outcome = outcome, !.resp = 500, !.pc = "rb_error"]]
         /\ UNCHANGED <<containers, tasks, last>>
       ELSE IF outcome = "start_error" THEN
         /\ containers' = Append(containers, NewContainer(me, "created"))
         /\ handlers' = [handlers EXCEPT ![h] =
              [me EXCEPT !.outcome = outcome, !.resp = 500, !.pc = "rb_error"]]
         /\ UNCHANGED <<tasks, last>>
       ELSE
         /\ containers' = Append(containers, NewContainer(me, "running"))
         /\ tasks' = tasks \cup
                       {Task("session", me.mid, NewConnectionId(me.mid))}
         /\ handlers' = [handlers EXCEPT ![h] =
              [me EXCEPT !.outcome = outcome, !.cid = newc,
                         !.uid = NewConnectionId(me.mid), !.pc = "rb_active"]]
         /\ UNCHANGED last
  /\ UNCHANGED <<meetings, sessions, published, served>>

\* status = 'error'; commit; the HTTP error is returned.
rb_error(h) ==
  /\ UNCHANGED <<collector, runner>>
  /\ handlers[h].pc = "rb_error"
  /\ meetings' = SetMeeting(handlers[h].mid, [status |-> "error"])
  /\ Respond(h, handlers[h], handlers[h].resp)
  /\ UNCHANGED <<sessions, containers, tasks, published, served>>

\* Mutant of rb_active: the row is made active without its container id.
rb_active_without_container(h) ==
  /\ UNCHANGED <<collector, runner>>
  /\ handlers[h].pc = "rb_active"
  /\ meetings' = SetMeeting(handlers[h].mid,
       [status |-> "active", start_time |-> TRUE])
  /\ Respond(h, handlers[h], 201)
  /\ UNCHANGED <<sessions, containers, tasks, published, served>>

\* bot_container_id, status = 'active', start_time; commit; 201.
rb_active(h) ==
  /\ UNCHANGED <<collector, runner>>
  /\ handlers[h].pc = "rb_active"
  /\ meetings' = SetMeeting(handlers[h].mid,
       [cid |-> handlers[h].cid, status |-> "active", start_time |-> TRUE])
  /\ Respond(h, handlers[h], 201)
  /\ UNCHANGED <<sessions, containers, tasks, published, served>>

\* ------------------------------------------------------ background tasks
\* MeetingSession.session_uid is unique: an INSERT of a uid the table
\* already holds is refused by the store.
SessionInsertConflicts(uid) ==
  \E i \in DOMAIN sessions : sessions[i].session_uid = uid

\* _record_session_start(meeting_id, session_uid): the placeholder row, with
\* the current time as session_start_time; a refused INSERT is logged.
record_session_start(t) ==
  /\ UNCHANGED <<collector, runner>>
  /\ t \in tasks /\ t.kind = "session"
  /\ sessions' =
       IF SessionInsertConflicts(t.b) THEN sessions
       ELSE Append(sessions, [meeting_id |-> t.a, session_uid |-> t.b,
                              session_start_time |-> now])
  /\ tasks' = tasks \ {t}
  /\ UNCHANGED <<meetings, containers, handlers, published, last, served>>

\* _delayed_container_stop(container_id): sleep, then stop_bot_container.
\* The engine stops the container, or the call fails and is logged.
delayed_container_stop(t) ==
  /\ UNCHANGED <<collector, runner>>
  /\ t \in tasks /\ t.kind = "stop"
  /\ \E stopped \in BOOLEAN :
       containers' =
         IF stopped /\ containers[t.a].state = "running"
           THEN [containers EXCEPT ![t.a].state = "exited"]
           ELSE containers
  /\ tasks' = tasks \ {t}
  /\ UNCHANGED <<meetings, sessions, handlers, published, last, served>>

\* run_all_tasks(meeting_id)
run_all_tasks(t) ==
  /\ UNCHANGED <<collector, runner>>
  /\ t \in tasks /\ t.kind = "post"
  /\ tasks' = tasks \ {t}
  /\ UNCHANGED <<meetings, sessions, containers, handlers, published, last, served>>

\* ------------------------------------------------------------ environment
\* The bot process ends (left the meeting, crashed, was killed): with
\* AutoRemove the engine no longer lists the container.
container_exit(c) ==
  /\ UNCHANGED <<collector, runner>>
  /\ c \in DOMAIN containers
  /\ containers[c].state = "running"
  /\ containers' = [containers EXCEPT ![c].state = "exited"]
  /\ UNCHANGED <<meetings, sessions, handlers, tasks, published, last, served>>

\* ---------------------------------------------------------------- stop_bot
\* select(Meeting) ... status == 'active' order by created_at desc
active_meeting(u, k) ==
  LET S == {m \in DOMAIN meetings :
              /\ meetings[m].user = u
              /\ meetings[m].key = k
              /\ meetings[m].status = "active"}
  IN IF S = {} THEN 0 ELSE Max(S)

\* select(MeetingSession.session_uid) where meeting_id = m
\*   order by session_start_time asc; first()
\* The rows first() may return: those with the least session_start_time
\* (0: the meeting has no session).
earliest_session_uid(m) ==
  LET S == {i \in DOMAIN sessions : sessions[i].meeting_id = m}
  IN IF S = {} THEN {0}
     ELSE {sessions[i].session_uid : i \in
             {j \in S : \A k \in S : sessions[j].session_start_time
                                        <= sessions[k].session_start_time}}

\* DELETE /bots/{platform}/{native_meeting_id} arrives; the meeting lookup.
stop_bot(h, u, k) ==
  /\ UNCHANGED <<collector, runner>>
  /\ CanStart(h)
  /\ KeyUsable(k)

  /\ served' = served + 1
  /\ LET m == active_meeting(u, k)
         me == [IdleHandler EXCEPT !.op = "stop_bot", !.user = u, !.key = k,
                  !.mid = m, !.cid = IF m = 0 THEN 0 ELSE meetings[m].cid]
     IN
     IF m = 0 THEN Respond(h, me, 404)
     ELSE /\ handlers' = [handlers EXCEPT ![h] =
               IF me.cid = 0
                 THEN [me EXCEPT !.pc = "sb_error", !.resp = 409]
                 ELSE [me EXCEPT !.pc = "sb_session"]]
          /\ UNCHANGED last
  /\ UNCHANGED <<meetings, sessions, containers, tasks, published>>

\* The session lookup and, when a session is found, the publication of the
\* leave command (skipped when the bus is unavailable or publish fails).
sb_session(h) ==
  /\ UNCHANGED <<collector, runner>>
  /\ handlers[h].pc = "sb_session"
  /\ \E bus_ok \in BOOLEAN, uid \in earliest_session_uid(handlers[h].mid) :
       /\ handlers' = [handlers EXCEPT ![h] =
            IF uid = 0
              THEN [@ EXCEPT !.pc = "sb_error", !.resp = 500]
              ELSE [@ EXCEPT !.pc = "sb_commit", !.uid = uid]]
       /\ published' =
            IF uid # 0 /\ bus_ok
              THEN published \cup {[mid |-> handlers[h].mid, channel |-> uid,
                                     action |-> "leave"]}
              ELSE published
  /\ UNCHANGED <<meetings, sessions, containers, tasks, last, served>>

\* meeting.status = 'error'; commit; the HTTP error is returned.
sb_error(h) ==
  /\ UNCHANGED <<collector, runner>>
  /\ handlers[h].pc = "sb_error"
  /\ meetings' = SetMeeting(handlers[h].mid, [status |-> "error"])
  /\ Respond(h, handlers[h], handlers[h].resp)
  /\ UNCHANGED <<sessions, containers, tasks, published, served>>

\* meeting.status = 'stopping'; commit; 202; the delayed stop is scheduled.
sb_commit(h) ==
  /\ UNCHANGED <<collector, runner>>
  /\ handlers[h].pc = "sb_commit"
  /\ meetings' = SetMeeting(handlers[h].mid, [status |-> "stopping"])
  /\ tasks' = tasks \cup {Task("stop", handlers[h].cid, 0)}
  /\ Respond(h, handlers[h], 202)
  /\ UNCHANGED <<sessions, containers, published, served>>

\* ------------------------------------------------------- bot_exit_callback
\* select(MeetingSession) where session_uid = uid; first()
session_meeting(uid) ==
  LET S == {i \in DOMAIN sessions : sessions[i].session_uid = uid}
  IN IF S = {} THEN 0 ELSE sessions[Min(S)].meeting_id

\* Mutant of FinalStatus: the two exit codes are swapped.
FinalStatusSwapped(exit_code) ==
  IF exit_code = 0 THEN "failed" ELSE "completed"

FinalStatus(exit_code) == IF exit_code = 0 THEN "completed" ELSE "failed"

\* Connection ids a callback may carry: those handed to a started bot, and
\* one no session has (0).
CallbackUids ==
  {0} \cup {containers[c].uid : c \in
              {d \in DOMAIN containers : containers[d].state # "created"}}

\* POST /bots/internal/callback/exited arrives; session and meeting lookup.
bot_exit_callback(h, uid, exit_code) ==
  /\ UNCHANGED <<collector, runner>>
  /\ CanStart(h)
  /\ served' = served + 1
  /\ uid \in CallbackUids
  /\ LET m == session_meeting(uid)
         me == [IdleHandler EXCEPT !.op = "bot_exit_callback", !.uid = uid,
                  !.exit_code = exit_code, !.mid = m,
                  !.seen = IF m = 0 THEN "none" ELSE meetings[m].status]
     IN
     IF m = 0 THEN Respond(h, [me EXCEPT !.outcome = "no_session"], 200)
     ELSE /\ handlers' = [handlers EXCEPT ![h] = [me EXCEPT !.pc = "cb_commit"]]
          /\ UNCHANGED last
  /\ UNCHANGED <<meetings, sessions, containers, tasks, published>>

\* meeting.status = completed | failed; end_time = utcnow(); commit.  The
\* UPDATE carries the status column only when the handler changed it.
cb_commit(h) ==
  /\ UNCHANGED <<collector, runner>>
  /\ handlers[h].pc = "cb_commit"
  /\ LET me == handlers[h]
         st == FinalStatus(me.exit_code) IN
     meetings' =
       IF st = me.seen
         THEN SetMeeting(me.mid, [end_time |-> TRUE])
         ELSE SetMeeting(me.mid, [status |-> st, end_time |-> TRUE])
  /\ handlers' = [handlers EXCEPT ![h].pc = "cb_refresh"]
  /\ UNCHANGED <<sessions, containers, tasks, published, last, served>>

\* Mutant of cb_refresh: the post-meeting tasks are scheduled for a clean
\* exit only.
cb_refresh_on_clean_exit_only(h) ==
  /\ UNCHANGED <<collector, runner>>
  /\ handlers[h].pc = "cb_refresh"
  /\ LET me == handlers[h]
         c == meetings[me.mid].cid IN
     /\ tasks' = tasks \cup
          (IF me.exit_code = 0 THEN {Task("post", me.mid, 0)} ELSE {}) \cup
          (IF me.exit_code # 0 /\ c # 0 THEN {Task("stop", c, 0)} ELSE {})
     /\ Respond(h, [me EXCEPT !.cid = c, !.seen = meetings[me.mid].status], 200)
  /\ UNCHANGED <<meetings, sessions, containers, published, served>>

\* db.refresh(meeting); the post-meeting tasks and, for a failed exit with a
\* container id, a delayed stop are scheduled; 200.
cb_refresh(h) ==
  /\ UNCHANGED <<collector, runner>>
  /\ handlers[h].pc = "cb_refresh"
  /\ LET me == handlers[h]
         c == meetings[me.mid].cid IN
     /\ tasks' = tasks \cup {Task("post", me.mid, 0)} \cup
          (IF me.exit_code # 0 /\ c # 0 THEN {Task("stop", c, 0)} ELSE {})
     /\ Respond(h, [me EXCEPT !.cid = c, !.seen = meetings[me.mid].status], 200)
  /\ UNCHANGED <<meetings, sessions, containers, published, served>>

\* ------------------------------------------------------------ specification
Next ==
  \/ \E h \in Handlers, u \in Users, k \in Keys : request_bot(h, u, k)
  \/ \E h \in Handlers : rb_verify(h)
  \/ \E h \in Handlers : rb_mark(h)
  \/ \E h \in Handlers : rb_insert(h)
  \/ \E h \in Handlers : rb_refresh(h)
  \/ \E h \in Handlers : rb_launch(h)
  \/ \E h \in Handlers : rb_error(h)
  \/ \E h \in Handlers : rb_active(h)
  \/ \E h \in Handlers, u \in Users, k \in Keys : stop_bot(h, u, k)
  \/ \E h \in Handlers : sb_session(h)
  \/ \E h \in Handlers : sb_error(h)
  \/ \E h \in Handlers : sb_commit(h)
  \/ \E h \in Handlers, uid \in 0..MaxMeetings, e \in ExitCodes :
       bot_exit_callback(h, uid, e)
  \/ \E h \in Handlers : cb_commit(h)
  \/ \E h \in Handlers : cb_refresh(h)
  \/ \E t \in tasks : record_session_start(t)
  \/ \E t \in tasks : delayed_container_stop(t)
  \/ \E t \in tasks : run_all_tasks(t)
  \/ \E c \in DOMAIN containers : container_exit(c)

Spec == Init /\ [][Next]_vars

\* The code a suspended handler runs when the event loop resumes it.
HandlerStep(h) ==
  \/ rb_verify(h) \/ rb_mark(h) \/ rb_insert(h) \/ rb_refresh(h)
  \/ rb_launch(h) \/ rb_error(h) \/ rb_active(h)
  \/ sb_session(h) \/ sb_error(h) \/ sb_commit(h)
  \/ cb_commit(h) \/ cb_refresh(h)

\* The event loop resumes every suspended handler and runs every scheduled
\* background task; requests and container exits come when they come.
Fairness ==
  /\ \A h \in Handlers : WF_vars(HandlerStep(h))
  /\ WF_vars(\E t \in tasks : record_session_start(t))
  /\ WF_vars(\E t \in tasks : delayed_container_stop(t))
  /\ WF_vars(\E t \in tasks : run_all_tasks(t))

SpecLive == Init /\ [][Next]_vars /\ Fairness

\* ------------------------------------------- run_all_tasks, step by step
\* Files of the bot_exit_tasks directory: the package file, two task modules
\* (each with an async run(meeting, db)) and a module without a run.
Files == {"__init__.py", "send_webhook.py", "archive.py", "utils.py"}
TaskModules == {"send_webhook.py", "archive.py"}

RECURSIVE Orders(_)
Orders(S) ==
  IF S = {} THEN {<<>>}
  ELSE UNION {{<<f>> \o o : o \in Orders(S \ {f})} : f \in S}

\* os.listdir(current_dir): the files present, in arbitrary order.
Listings ==
  UNION {Orders({"__init__.py"} \cup S) : S \in SUBSET (Files \ {"__init__.py"})}

\* What the loop body can do with file f: skip it, fail to import it, find
\* no coroutine run in it, or await run(), which returns or raises.
ModuleOutcomes(f) ==
  IF f = "__init__.py" THEN {"skipped"}
  ELSE IF f \in TaskModules THEN {"import_error", "ok", "raised"}
  ELSE {"import_error", "no_run"}

\* async with async_session_local(); meeting = await db.get(Meeting, id);
\* return when there is none; os.listdir.
rt_get(t, listing) ==
  /\ UNCHANGED collector
  /\ runner.pc = "idle"
  /\ t \in tasks /\ t.kind = "post"
  /\ listing \in Listings
  /\ tasks' = tasks \ {t}
  /\ runner' =
       IF t.a \in DOMAIN meetings
         THEN [IdleRunner EXCEPT !.pc = "scan", !.mid = t.a,
                                 !.listing = listing]
         ELSE [IdleRunner EXCEPT !.pc = "done", !.mid = t.a,
                                 !.end = "no_meeting"]
  /\ UNCHANGED <<meetings, sessions, containers, handlers, published, last,
                 served>>

\* Mutant of rt_module: an exception of run() ends the loop and the run.
rt_module_aborts(outcome, mutates) ==
  /\ UNCHANGED collector
  /\ runner.pc = "scan"
  /\ Len(runner.log) < Len(runner.listing)
  /\ LET f == runner.listing[Len(runner.log) + 1]
         run == outcome \in {"ok", "raised"} IN
     /\ outcome \in ModuleOutcomes(f)
     /\ mutates => run
     /\ runner' =
          [runner EXCEPT
             !.log = Append(@, outcome),
             !.ran = IF run THEN Append(@, f) ELSE @,
             !.dirty = IF outcome = "raised" THEN {}
                       ELSE IF mutates THEN @ \cup {f} ELSE @,
             !.mutated = IF mutates THEN @ \cup {f} ELSE @,
             !.pc = IF outcome = "raised" THEN "done" ELSE @,
             !.end = IF outcome = "raised" THEN "rolled_back" ELSE @]
  /\ UNCHANGED <<meetings, sessions, containers, handlers, tasks, published,
                 last, served>>

\* One turn of the loop over the listing: the next file is skipped, or
\* imported and, when it has a coroutine run, run(meeting, db) is awaited;
\* ImportError and any exception of run() are logged.  What run() changed
\* on the meeting before it returned or raised stays in the db session.
rt_module(outcome, mutates) ==
  /\ UNCHANGED collector
  /\ runner.pc = "scan"
  /\ Len(runner.log) < Len(runner.listing)
  /\ LET f == runner.listing[Len(runner.log) + 1]
         run == outcome \in {"ok", "raised"} IN
     /\ outcome \in ModuleOutcomes(f)
     /\ mutates => run
     /\ runner' =
          [runner EXCEPT
             !.log = Append(@, outcome),
             !.ran = IF run THEN Append(@, f) ELSE @,
             !.dirty = IF mutates THEN @ \cup {f} ELSE @,
             !.mutated = IF mutates THEN @ \cup {f} ELSE @]
  /\ UNCHANGED <<meetings, sessions, containers, handlers, tasks, published,
                 last, served>>

\* await db.commit() after the loop; when it raises, db.rollback().
rt_commit(ok) ==
  /\ UNCHANGED collector
  /\ runner.pc = "scan"
  /\ Len(runner.log) = Len(runner.listing)
  /\ runner' =
       [runner EXCEPT !.pc = "done",
                      !.committed = IF ok THEN runner.dirty ELSE {},
                      !.dirty = {},
                      !.end = IF ok THEN "committed" ELSE "rolled_back"]
  /\ UNCHANGED <<meetings, sessions, containers, handlers, tasks, published,
                 last, served>>

\* A bot has run and exited with code 0: its meeting is completed and the
\* exit callback has scheduled the post-meeting tasks.
InitRunner ==
  /\ CollectorStart
  /\ runner = IdleRunner
  /\ meetings = <<[user |-> "u1", key |-> "k1", status |-> "completed",
                   cid |-> 1, start_time |-> TRUE, end_time |-> TRUE]>>
  /\ sessions = <<[meeting_id |-> 1, session_uid |-> NewConnectionId(1),
                   session_start_time |-> 0]>>
  /\ containers = <<[user |-> "u1", meeting |-> 1, uid |-> NewConnectionId(1),
                     state |-> "running"]>>
  /\ handlers = [h \in Handlers |-> IdleHandler]
  /\ tasks = {Task("post", 1, 0)}
  /\ published = {}
  /\ served = 2
  /\ last = [op |-> "bot_exit_callback", resp |-> 200, mid |-> 1,
             outcome |-> "none"]

NextRunner ==
  \/ \E t \in tasks, listing \in Listings : rt_get(t, listing)
  \/ \E outcome \in {"skipped", "import_error", "no_run", "ok", "raised"},
        mutates \in BOOLEAN : rt_module(outcome, mutates)
  \/ \E ok \in BOOLEAN : rt_commit(ok)

SpecRunner == InitRunner /\ [][NextRunner]_vars

\* ------------------------------------------------------ update_bot_config
\* PUT /bots/{platform}/{native_meeting_id}/config arrives; the lookup of the
\* active meeting (404 / 409 when there is none).
update_bot_config(h, u, k) ==
  /\ UNCHANGED <<collector, runner>>
  /\ CanStart(h)
  /\ KeyUsable(k)
  /\ served' = served + 1
  /\ LET m == active_meeting(u, k)
         me == [IdleHandler EXCEPT !.op = "update_bot_config", !.user = u,
                  !.key = k, !.mid = m]
     IN
     IF m = 0
       THEN Respond(h, me,
              IF \E r \in DOMAIN meetings :
                    meetings[r].user = u /\ meetings[r].key = k
                THEN 409 ELSE 404)
       ELSE /\ handlers' = [handlers EXCEPT ![h] = [me EXCEPT !.pc = "ub_session"]]
            /\ UNCHANGED last
  /\ UNCHANGED <<meetings, sessions, containers, tasks, published>>

\* The message bus as update_bot_config finds it.
BusStates == {"ok", "unavailable", "publish_error"}

\* The session lookup (409 when the meeting has no session) and the
\* publication of the reconfigure command (503 / 500 / 202).
ub_session(h) ==
  /\ UNCHANGED <<collector, runner>>
  /\ handlers[h].pc = "ub_session"
  /\ \E bus \in BusStates, uid \in earliest_session_uid(handlers[h].mid) :
       /\ published' =
            IF uid # 0 /\ bus = "ok"
              THEN published \cup {[mid |-> handlers[h].mid, channel |-> uid,
                                     action |-> "reconfigure"]}
              ELSE published
       /\ Respond(h, [handlers[h] EXCEPT !.uid = uid],
            IF uid = 0 THEN 409
            ELSE IF bus = "unavailable" THEN 503
            ELSE IF bus = "publish_error" THEN 500
            ELSE 202)
  /\ UNCHANGED <<meetings, sessions, containers, tasks, served>>

\* ------------------------------------------------------------------ clock
Tick ==
  /\ now < MaxTime
  /\ now' = now + 1
  /\ UNCHANGED <<manager, group, consumer, segments, ttl, active_meetings,
                 transcriptions, promoter, reader, started>>

\* ------------------------------------------- consumer: session_start events
\* select(Meeting) where user, platform, native id order by created_at desc;
\* first()  (0: no such meeting)
latest_meeting(u, k) ==
  LET S == {m \in DOMAIN meetings :
              meetings[m].user = u /\ meetings[m].key = k}
  IN IF S = {} THEN 0 ELSE Max(S)

\* select(MeetingSession) where meeting_id = m and session_uid = uid; first()
find_session(m, uid) ==
  LET S == {i \in DOMAIN sessions :
              sessions[i].meeting_id = m /\ sessions[i].session_uid = uid}
  IN IF S = {} THEN 0 ELSE Min(S)

\* Session uids a message of the bots may carry: the connection id a started
\* bot was given, or one it made up when it connected again.
StreamUids ==
  {containers[c].uid : c \in
     {d \in DOMAIN containers : containers[d].state # "created"}}
  \cup {ReconnectUid}

\* A session_start event (uid, start_timestamp = ts) is read from the stream:
\* user and meeting lookup, then the lookup of the session row.  A message
\* whose meeting is not found is acknowledged and dropped.
consume_session_start(u, k, uid, ts) ==
  /\ consumer.pc = "idle"
  /\ consumer.n < MaxMessages
  /\ uid \in StreamUids
  /\ ts \in 0..now
  /\ LET m == latest_meeting(u, k) IN
     /\ consumer' =
          IF m = 0 THEN [consumer EXCEPT !.n = @ + 1, !.ret = TRUE]
          ELSE [consumer EXCEPT !.n = @ + 1, !.pc = "co_session",
                  !.type = "session_start", !.mid = m, !.uid = uid,
                  !.ts = ts, !.row = find_session(m, uid)]
     /\ started' = IF m = 0 THEN started ELSE [started EXCEPT ![uid] = ts]
  /\ UNCHANGED <<manager, group, now, segments, ttl, active_meetings,
                 transcriptions, promoter, reader>>

\* The row found is given the event's timestamp, or a new row is added;
\* commit.  A refused INSERT is rolled back and the message is left
\* unacknowledged.
co_session(ok) ==
  /\ consumer.pc = "co_session"
  /\ ok = (consumer.row # 0 \/ ~SessionInsertConflicts(consumer.uid))
  /\ sessions' =
       IF consumer.row # 0
         THEN [sessions EXCEPT ![consumer.row].session_start_time = consumer.ts]
       ELSE IF ok
         THEN Append(sessions, [meeting_id |-> consumer.mid,
                                session_uid |-> consumer.uid,
                                session_start_time |-> consumer.ts])
       ELSE sessions
  /\ consumer' = [IdleConsumer EXCEPT !.n = consumer.n, !.ret = ok]
  /\ UNCHANGED <<meetings, containers, handlers, tasks, published, last,
                 served, runner, group, now, segments, ttl, active_meetings,
                 transcriptions, promoter, reader, started>>

\* A bot of user u1 on key k1 has just been launched: its Meeting row is
\* active, its container runs, the placeholder session row is still to be
\* written.
InitSession ==
  /\ CollectorStart
  /\ runner = IdleRunner
  /\ meetings = <<[user |-> "u1", key |-> "k1", status |-> "active", cid |-> 1,
                   start_time |-> TRUE, end_time |-> FALSE]>>
  /\ sessions = <<>>
  /\ containers = <<[user |-> "u1", meeting |-> 1, uid |-> NewConnectionId(1),
                     state |-> "running"]>>
  /\ handlers = [h \in Handlers |-> IdleHandler]
  /\ tasks = {Task("session", 1, NewConnectionId(1))}
  /\ published = {}
  /\ served = 0
  /\ last = [op |-> "request_bot", resp |-> 201, mid |-> 1, outcome |-> "run"]

NextSession ==
  \/ Tick
  \/ \E t \in tasks : record_session_start(t)
  \/ \E u \in Users, k \in Keys, uid \in SessionUids, ts \in 0..MaxTime :
       consume_session_start(u, k, uid, ts)
  \/ \E ok \in BOOLEAN : co_session(ok)
  \/ \E h \in Handlers, u \in Users, k \in Keys : stop_bot(h, u, k)
  \/ \E h \in Handlers : sb_session(h)
  \/ \E h \in Handlers : sb_error(h)
  \/ \E h \in Handlers : sb_commit(h)
  \/ \E h \in Handlers, u \in Users, k \in Keys : update_bot_config(h, u, k)
  \/ \E h \in Handlers : ub_session(h)

SpecSession == InitSession /\ [][NextSession]_vars

\* ------------------------------------------------ hash, set and their clock
\* Relative times of a segment are counted in thirds of the unit of the third
\* decimal of f"{start:.3f}"; session start times and hash keys are counted
\* in that unit.
Thirds == 3

\* Mutant of StartKey: the decimals beyond the third are cut off.
StartKeyTruncated(start) == start \div Thirds

\* start_time_key = f"{start_time_float:.3f}": rounding to the third decimal.
StartKey(start) == (start + 1) \div Thirds

\* IMMUTABILITY_THRESHOLD and REDIS_SEGMENT_TTL, in steps of Elapse.
IMMUTABILITY_THRESHOLD == 1
REDIS_SEGMENT_TTL == 3

\* The fields of meeting:<m>:segments.
Hash(m) == {e \in segments : e.meeting = m}

\* One step of time, as the collector can tell it: every field's updated_at
\* lies one step further back (ages beyond the threshold are not told
\* apart), every TTL has one step less to run, and a hash whose TTL ran out
\* is removed.
Elapse ==
  /\ segments' =
       {[e EXCEPT !.age = Min({@ + 1, IMMUTABILITY_THRESHOLD + 1})] :
          e \in {f \in segments : ttl[f.meeting] # 1}}
  /\ ttl' = [m \in DOMAIN ttl |-> Max({ttl[m] - 1, 0})]
  /\ UNCHANGED <<manager, group, now, consumer, active_meetings, transcriptions,
                 promoter, reader, started>>

\* -------------------------------------------- consumer: transcription messages
\* A session uid carrying the platform prefix, "<platform>_<uid>".
WithPrefix(uid) == -uid

\* Mutant of StripPrefix: the uid is looked up as it was stored.
StripPrefixKept(uid) == uid

\* potential_session_key: the uid without a known platform prefix.
StripPrefix(uid) == IF uid < 0 THEN -uid ELSE uid

\* uid values of a transcription message: none (0), a uid of the bot, or a
\* prefixed one.
TranscriptionUids == {0} \cup StreamUids \cup {WithPrefix(u) : u \in StreamUids}

\* (start, end) of the segment of a message, in thirds.
Spans == {<<-3, 0>>, <<3, 9>>, <<5, 9>>, <<6, 3>>}

\* Segment texts, as sequences of words.
Texts == {<<"hello", "world">>, <<"hello", "there">>, <<"ok">>}

\* Language tags of a segment, as sequences of characters: "en", and one of
\* more than LANGUAGE_LENGTH characters.
English == <<"e", "n">>
Languages == {English, <<"e", "n", "-", "U", "S", "-", "x", "-", "t", "w", "o">>}

\* A transcription message with one segment is read from the stream: user
\* and meeting lookup.  Without a meeting the message is acknowledged and
\* dropped; without a uid the segment loop raises (mapped_speaker_name is
\* unbound) and the message is left unacknowledged, nothing stored.
consume_segment(u, k, uid, span, text, lang) ==
  /\ consumer.pc = "idle"
  /\ consumer.n < MaxMessages
  /\ uid \in TranscriptionUids
  /\ LET m == latest_meeting(u, k) IN
     consumer' =
       IF m = 0 \/ uid = 0
         THEN [consumer EXCEPT !.n = @ + 1, !.ret = (m = 0)]
       ELSE [consumer EXCEPT !.n = @ + 1, !.pc = "co_store",
               !.type = "transcription", !.mid = m, !.uid = uid,
               !.start = span[1], !.key = StartKey(span[1]),
               !.end_time = span[2], !.text = text, !.language = lang]
  /\ UNCHANGED <<manager, group, now, segments, ttl, active_meetings,
                 transcriptions, promoter, reader, started>>

\* The same message, its segment tagged with language "en".
consume_transcription(u, k, uid, span, text) ==
  consume_segment(u, k, uid, span, text, English)

\* The field the consumer writes: updated_at is the time of writing.
NewField ==
  [meeting |-> consumer.mid, key |-> consumer.key, text |-> consumer.text,
   language |-> consumer.language, end_time |-> consumer.end_time,
   session_uid |-> consumer.uid, age |-> 0]

\* The MULTI pipeline: SADD active_meetings, EXPIRE of the hash (which does
\* nothing to a key that does not exist yet), HSET of the field.  A pipeline
\* error stores nothing and leaves the message unacknowledged.
co_store(ok) ==
  /\ consumer.pc = "co_store"
  /\ IF ok
       THEN /\ active_meetings' = active_meetings \cup {consumer.mid}
            /\ ttl' = [ttl EXCEPT ![consumer.mid] =
                         IF Hash(consumer.mid) = {} THEN 0
                         ELSE REDIS_SEGMENT_TTL]
            /\ segments' =
                 {e \in segments :
                    ~(e.meeting = consumer.mid /\ e.key = consumer.key)}
                 \cup {NewField}
       ELSE UNCHANGED <<active_meetings, ttl, segments>>
  /\ consumer' = [IdleConsumer EXCEPT !.n = consumer.n, !.ret = ok]
  /\ UNCHANGED <<manager, group, now, transcriptions, promoter, reader, started>>

\* ---------------------------------------------------------------- promoter
RECURSIVE Chars(_)
\* len(text): the words and the blanks between them.
Chars(text) ==
  IF text = <<>> THEN 0
  ELSE Len(Head(text)) + (IF Len(text) > 1 THEN 1 ELSE 0) + Chars(Tail(text))

\* Texts matched by BASE_NON_INFORMATIVE_PATTERNS, and the words that start
\* with '<' or '['.
NonInformative == {<<>>, <<"[BLANK_AUDIO]">>, <<"<inaudible>">>, <<"<no", "audio>">>}
Bracketed == {"[BLANK_AUDIO]", "<inaudible>", "<no"}

\* TranscriptionFilter.filter_segment with the default configuration:
\* min_character_length 3, the base patterns, min_real_words 1.
filter_segment(text) ==
  /\ Chars(text) >= 3
  /\ text \notin NonInformative
  /\ Cardinality({i \in DOMAIN text :
                    Len(text[i]) >= 3 /\ text[i] \notin Bracketed}) >= 1

\* create_transcription_object, from a hash field: start=float(key).
create_transcription_object(e) ==
  [meeting_id |-> e.meeting, start_time |-> e.key, end_time |-> e.end_time,
   text |-> e.text, language |-> e.language, session_uid |-> e.session_uid]

RECURSIVE InKeyOrder(_)
\* The fields of a set as a sequence (HGETALL order, taken as key order).
InKeyOrder(S) ==
  IF S = {} THEN <<>>
  ELSE LET e == CHOOSE x \in S : \A y \in S : x.key <= y.key
       IN <<e>> \o InKeyOrder(S \ {e})

\* Mutant of Aged: every field counts as settled.
AgedWhatever(S) == S

\* Fields whose updated_at is older than the immutability threshold.
Aged(S) == {e \in S : e.age > IMMUTABILITY_THRESHOLD}

\* Where the promoter goes once it is done with a meeting of its list.
AfterMeeting(todo, batch) ==
  IF todo # {} THEN "pr_read"
  ELSE IF batch # <<>> THEN "pr_commit"
  ELSE "sleep"

\* Promoter locals after a meeting (they are dropped when the cycle ends).
Proceed(todo, batch, del, cur) ==
  LET pc == AfterMeeting(todo, batch) IN
  IF pc = "sleep" THEN IdlePromoter
  ELSE [pc |-> pc, todo |-> todo, cur |-> cur, batch |-> batch, del |-> del]

\* The sleep is over: SMEMBERS active_meetings (an empty set: next cycle).
pr_wake ==
  /\ promoter.pc = "sleep"
  /\ active_meetings # {}
  /\ promoter' = [IdlePromoter EXCEPT !.pc = "pr_read", !.todo = active_meetings]
  /\ UNCHANGED <<manager, group, now, consumer, segments, ttl, active_meetings,
                 transcriptions, reader, started>>

\* HGETALL of the next meeting.  An empty hash sends the promoter to SREM;
\* otherwise the aged fields are marked for deletion and those the filter
\* keeps are added to the batch.
pr_read(m) ==
  /\ promoter.pc = "pr_read"
  /\ m \in promoter.todo
  /\ LET todo == promoter.todo \ {m}
         aged == Aged(Hash(m))
         kept == {e \in aged : filter_segment(e.text)}
         batch == promoter.batch \o
                    [i \in 1..Cardinality(kept) |->
                       create_transcription_object(InKeyOrder(kept)[i])]
         del == promoter.del \cup {<<m, e.key>> : e \in aged}
     IN
     promoter' =
       IF Hash(m) = {}
         THEN [promoter EXCEPT !.pc = "pr_srem", !.todo = todo, !.cur = m]
         ELSE Proceed(todo, batch, del, 0)
  /\ UNCHANGED <<manager, group, now, consumer, segments, ttl, active_meetings,
                 transcriptions, reader, started>>

\* SREM active_meetings <id> of the meeting whose hash was read empty.
pr_srem ==
  /\ promoter.pc = "pr_srem"
  /\ active_meetings' = active_meetings \ {promoter.cur}
  /\ promoter' = Proceed(promoter.todo, promoter.batch, promoter.del, 0)
  /\ UNCHANGED <<manager, group, now, consumer, segments, ttl, transcriptions,
                 reader, started>>

\* Transcription.language is String(10): a row with a longer value is
\* refused by the store.
LANGUAGE_LENGTH == 10
Storable(r) == Len(r.language) <= LANGUAGE_LENGTH

\* Mutant of pr_commit: the marked fields are deleted after a failed commit
\* too.
pr_commit_then_delete(ok) ==
  /\ promoter.pc = "pr_commit"
  /\ ok => \A i \in DOMAIN promoter.batch : Storable(promoter.batch[i])
  /\ transcriptions' =
       IF ok THEN transcriptions \o promoter.batch ELSE transcriptions
  /\ promoter' = [promoter EXCEPT !.pc = "pr_delete", !.batch = <<>>]
  /\ UNCHANGED <<manager, group, now, consumer, segments, ttl, active_meetings,
                 reader, started>>

\* db.add_all(batch); commit.  The commit fails when the store refuses a row
\* of the batch, and may fail for other reasons; a failed commit is rolled
\* back and nothing is deleted in this cycle.
pr_commit(ok) ==
  /\ promoter.pc = "pr_commit"
  /\ ok => \A i \in DOMAIN promoter.batch : Storable(promoter.batch[i])
  /\ transcriptions' =
       IF ok THEN transcriptions \o promoter.batch ELSE transcriptions
  /\ promoter' =
       IF ok THEN [promoter EXCEPT !.pc = "pr_delete", !.batch = <<>>]
       ELSE IdlePromoter
  /\ UNCHANGED <<manager, group, now, consumer, segments, ttl, active_meetings,
                 reader, started>>

\* HDEL of the marked keys of one meeting; a hash left without fields is
\* gone, and its TTL with it.
pr_delete(m) ==
  /\ promoter.pc = "pr_delete"
  /\ \E d \in promoter.del : d[1] = m
  /\ LET left == {e \in segments : <<e.meeting, e.key>> \notin
                                     {d \in promoter.del : d[1] = m}}
         del == {d \in promoter.del : d[1] # m}
     IN
     /\ segments' = left
     /\ ttl' = [ttl EXCEPT ![m] =
                  IF \E e \in left : e.meeting = m THEN @ ELSE 0]
     /\ promoter' = IF del = {} THEN IdlePromoter
                    ELSE [promoter EXCEPT !.del = del]
  /\ UNCHANGED <<manager, group, now, consumer, active_meetings, transcriptions,
                 reader, started>>

\* -------------------------------------------------------- transcript read
\* session_times: session_uid -> session_start_time of the meeting's rows.
session_times(m) ==
  {<<sessions[i].session_uid, sessions[i].session_start_time>> :
     i \in {j \in DOMAIN sessions : sessions[j].meeting_id = m}}

HasSession(st, uid) == \E p \in st : p[1] = uid
SessionStart(st, uid) == (CHOOSE p \in st : p[1] = uid)[2]

\* The entry of the merged dictionary a Transcription row makes.
FromRow(st, r) ==
  [start_time |-> r.start_time, end_time |-> r.end_time, text |-> r.text,
   absolute_start_time |-> SessionStart(st, r.session_uid) + r.start_time]

\* The entry of the merged dictionary a hash field makes: the session is
\* looked up by the uid without its platform prefix.
FromField(st, e) ==
  [start_time |-> e.key, end_time |-> e.end_time, text |-> e.text,
   absolute_start_time |->
     SessionStart(st, StripPrefix(e.session_uid)) + e.key]

\* Mutant of Merged: a Transcription row with a session overrides the hash
\* field of its key.
MergedRowsOver(st, rows, fields) ==
  LET usable == {e \in fields :
                   e.session_uid # 0 /\ HasSession(st, StripPrefix(e.session_uid))}
      stored == {i \in DOMAIN rows : HasSession(st, rows[i].session_uid)}
      last_of(key) == Max({i \in stored : rows[i].start_time = key})
  IN {FromRow(st, rows[i]) : i \in {j \in stored : j = last_of(rows[j].start_time)}}
     \cup {FromField(st, e) : e \in
             {f \in usable : \A j \in stored : rows[j].start_time # f.key}}

\* merged_segments_with_abs_time: per key, the hash field if it has a
\* session, else the last Transcription row of that key that has one.
Merged(st, rows, fields) ==
  LET usable == {e \in fields :
                   e.session_uid # 0 /\ HasSession(st, StripPrefix(e.session_uid))}
      stored == {i \in DOMAIN rows : HasSession(st, rows[i].session_uid)}
      last_of(key) == Max({i \in stored : rows[i].start_time = key})
  IN {FromField(st, e) : e \in usable}
     \cup {FromRow(st, rows[i]) : i \in
             {j \in stored :
                /\ j = last_of(rows[j].start_time)
                /\ \A e \in usable : e.key # rows[j].start_time}}

\* Mutant of Earlier: the order is that of the relative start times.
EarlierByRelativeStart(a, b) == a.start_time <= b.start_time

\* The sort key of the merged entries: the absolute start time (entries of
\* equal absolute start are taken in key order).
Earlier(a, b) ==
  \/ a.absolute_start_time < b.absolute_start_time
  \/ /\ a.absolute_start_time = b.absolute_start_time
     /\ a.start_time <= b.start_time

RECURSIVE Sorted(_)
Sorted(S) ==
  IF S = {} THEN <<>>
  ELSE LET a == CHOOSE x \in S : \A y \in S : Earlier(x, y)
       IN <<a>> \o Sorted(S \ {a})

\* What _get_full_transcript_segments returns from the session rows st, the
\* Transcription rows `rows` and the hash fields `fields` it has read.
Assemble(st, rows, fields) == Sorted(Merged(st, rows, fields))

\* The Transcription rows of meeting m among the first n of the table.
RowsRead(m, n) ==
  SelectSeq(SubSeq(transcriptions, 1, n), LAMBDA r : r.meeting_id = m)

\* GET /transcripts/{platform}/{native_meeting_id} arrives: the meeting
\* lookup (404 without one), the session rows and the Transcription rows.
get_transcript(u, k) ==
  /\ reader.pc = "idle"
  /\ latest_meeting(u, k) # 0
  /\ reader' = [pc |-> "rd_hash", mid |-> latest_meeting(u, k),
                session_times |-> session_times(latest_meeting(u, k)),
                rows |-> Len(transcriptions)]
  /\ UNCHANGED <<manager, group, now, consumer, segments, ttl, active_meetings,
                 transcriptions, promoter, started>>

\* The list a read that is about to query the hash returns.
Response ==
  Assemble(reader.session_times, RowsRead(reader.mid, reader.rows),
           Hash(reader.mid))

\* HGETALL of the hash, merge, sort; the list is returned.
rd_hash ==
  /\ reader.pc = "rd_hash"
  /\ reader' = IdleReader
  /\ UNCHANGED <<manager, group, now, consumer, segments, ttl, active_meetings,
                 transcriptions, promoter, started>>

\* A bot of user u1 on key k1 runs; its launch session started at 0, a
\* session of a later connection of the bot at 2.
InitSegments ==
  /\ CollectorStart
  /\ runner = IdleRunner
  /\ meetings = <<[user |-> "u1", key |-> "k1", status |-> "active", cid |-> 1,
                   start_time |-> TRUE, end_time |-> FALSE]>>
  /\ sessions =
       <<[meeting_id |-> 1, session_uid |-> NewConnectionId(1),
          session_start_time |-> 0],
         [meeting_id |-> 1, session_uid |-> ReconnectUid,
          session_start_time |-> 2]>>
  /\ containers = <<[user |-> "u1", meeting |-> 1, uid |-> NewConnectionId(1),
                     state |-> "running"]>>
  /\ handlers = [h \in Handlers |-> IdleHandler]
  /\ tasks = {}
  /\ published = {}
  /\ served = 0
  /\ last = [op |-> "request_bot", resp |-> 201, mid |-> 1, outcome |-> "run"]

NextSegments ==
  \/ Elapse
  \/ \E u \in Users, k \in Keys, uid \in TranscriptionUids,
        span \in Spans, text \in Texts :
       consume_transcription(u, k, uid, span, text)
  \/ \E ok \in BOOLEAN : co_store(ok)
  \/ pr_wake
  \/ \E m \in active_meetings : pr_read(m)
  \/ pr_srem
  \/ \E ok \in BOOLEAN : pr_commit(ok)
  \/ \E m \in 1..MaxMeetings : pr_delete(m)
  \/ \E u \in Users, k \in Keys : get_transcript(u, k)
  \/ rd_hash

SpecSegments == InitSegments /\ [][NextSegments]_vars

\* Time goes on, the consumer and the promoter are asyncio tasks that run
\* whenever they can, and the store does not refuse every commit for ever.
FairSegments ==
  /\ WF_vars(Elapse)
  /\ WF_vars(\E ok \in BOOLEAN : co_store(ok))
  /\ WF_vars(pr_wake)
  /\ WF_vars(\E m \in active_meetings : pr_read(m))
  /\ WF_vars(pr_srem)
  /\ SF_vars(pr_commit(TRUE))
  /\ WF_vars(\E m \in 1..MaxMeetings : pr_delete(m))
  /\ WF_vars(rd_hash)

SpecSegmentsLive == InitSegments /\ [][NextSegments]_vars /\ FairSegments

\* The same bot, but the session_start of its later connection has not been
\* processed (it is still in the stream, or its processing failed): only the
\* launch session has a row.
InitLateSession ==
  /\ CollectorStart
  /\ runner = IdleRunner
  /\ meetings = <<[user |-> "u1", key |-> "k1", status |-> "active", cid |-> 1,
                   start_time |-> TRUE, end_time |-> FALSE]>>
  /\ sessions =
       <<[meeting_id |-> 1, session_uid |-> NewConnectionId(1),
          session_start_time |-> 0]>>
  /\ containers = <<[user |-> "u1", meeting |-> 1, uid |-> NewConnectionId(1),
                     state |-> "running"]>>
  /\ handlers = [h \in Handlers |-> IdleHandler]
  /\ tasks = {}
  /\ published = {}
  /\ served = 0
  /\ last = [op |-> "request_bot", resp |-> 201, mid |-> 1, outcome |-> "run"]

SpecLateSession == InitLateSession /\ [][NextSegments]_vars

\* User u1 had a bot on key k1 whose meeting is completed (session uid 1,
\* container exited), and now has a bot running for a second meeting, on
\* key k (session uid 2, started at 2).
InitTwoMeetings(k) ==
  /\ CollectorStart
  /\ runner = IdleRunner
  /\ meetings = <<[user |-> "u1", key |-> "k1", status |-> "completed",
                   cid |-> 1, start_time |-> TRUE, end_time |-> TRUE],
                  [user |-> "u1", key |-> k, status |-> "active", cid |-> 2,
                   start_time |-> TRUE, end_time |-> FALSE]>>
  /\ sessions =
       <<[meeting_id |-> 1, session_uid |-> NewConnectionId(1),
          session_start_time |-> 0],
         [meeting_id |-> 2, session_uid |-> NewConnectionId(2),
          session_start_time |-> 2]>>
  /\ containers = <<[user |-> "u1", meeting |-> 1, uid |-> NewConnectionId(1),
                     state |-> "exited"],
                    [user |-> "u1", meeting |-> 2, uid |-> NewConnectionId(2),
                     state |-> "running"]>>
  /\ handlers = [h \in Handlers |-> IdleHandler]
  /\ tasks = {}
  /\ published = {}
  /\ served = 0
  /\ last = [op |-> "request_bot", resp |-> 201, mid |-> 2, outcome |-> "run"]

\* The second meeting is for the same key as the first.
InitRejoined == InitTwoMeetings("k1")

SpecRejoined == InitRejoined /\ [][NextSegments]_vars

\* The second meeting is for another key: the hashes of both meetings fill.
InitApart == InitTwoMeetings("k2")

\* Consumer and promoter with messages of either bot, each with one segment
\* of span StreamSpan and a text the filter accepts, in either language tag.
NextBatch ==
  \/ Elapse
  \/ \E u \in Users, k \in Keys, lang \in Languages :
       consume_segment(u, k, NewConnectionId(latest_meeting(u, k)),
                       <<3, 9>>, <<"hello", "world">>, lang)
  \/ \E ok \in BOOLEAN : co_store(ok)
  \/ pr_wake
  \/ \E m \in active_meetings : pr_read(m)
  \/ pr_srem
  \/ \E ok \in BOOLEAN : pr_commit(ok)
  \/ \E m \in 1..MaxMeetings : pr_delete(m)

SpecBatch == InitApart /\ [][NextBatch]_vars

\* The same scheduling as in SpecSegmentsLive: a commit the store can accept
\* is not refused for ever.
SpecBatchLive == InitApart /\ [][NextBatch]_vars /\ FairSegments

\* ------------------------------------- consumer group: delivery and XACK
\* Stream entries process_stream_message gives up on before it looks
\* anything up (no payload field, payload not JSON, token / platform /
\* meeting_id missing), or at the token lookup (unknown token).
Malformed == {"no_payload", "bad_json", "no_fields", "bad_token"}

\* The one segment span and the texts of the messages of this part.
StreamSpan == <<3, 9>>
StreamTexts == {<<"hello", "world">>, <<"hello", "there">>}

\* Entries the bots (or anyone else) may add to the stream, all with the
\* token of user u1 unless the token is the flaw.
StreamMessages ==
  {[form |-> f, type |-> "none", k |-> "k1", uid |-> 0, text |-> <<>>] :
     f \in Malformed}
  \cup {[form |-> "ok", type |-> "transcription", k |-> k, uid |-> uid,
         text |-> text] :
          k \in Keys, uid \in {0, NewConnectionId(1)}, text \in StreamTexts}
  \cup {[form |-> "ok", type |-> "session_start", k |-> k,
         uid |-> ReconnectUid, text |-> <<>>] : k \in Keys}

\* The pending entries list of the consumer group.
PEL == {e \in delivered : ~e.acked}

\* The message of the entry with this id.
Msg(id) == (CHOOSE e \in delivered : e.id = id).msg

\* The entry in hand is acknowledged (XACK went through) or left as it is.
Acked(id, done) ==
  {IF e.id = id /\ done THEN [e EXCEPT !.acked = TRUE] ELSE e :
     e \in delivered}

\* Mutant of consume_malformed: False is returned.
consume_malformed_unacked(form) ==
  /\ consumer.pc = "idle"
  /\ consumer.n < MaxMessages
  /\ form \in Malformed
  /\ consumer' = [consumer EXCEPT !.n = @ + 1, !.ret = FALSE]
  /\ UNCHANGED <<manager, group, now, segments, ttl, active_meetings,
                 transcriptions, promoter, reader, started>>

\* A payload that is not read as far as the meeting lookup: True is
\* returned at once and nothing is written.
consume_malformed(form) ==
  /\ consumer.pc = "idle"
  /\ consumer.n < MaxMessages
  /\ form \in Malformed
  /\ consumer' = [consumer EXCEPT !.n = @ + 1, !.ret = TRUE]
  /\ UNCHANGED <<manager, group, now, segments, ttl, active_meetings,
                 transcriptions, promoter, reader, started>>

\* The token or meeting lookup raises (the relational store is down):
\* rollback, False.
consume_db_error ==
  /\ consumer.pc = "idle"
  /\ consumer.n < MaxMessages
  /\ consumer' = [consumer EXCEPT !.n = @ + 1, !.ret = FALSE]
  /\ UNCHANGED <<manager, group, now, segments, ttl, active_meetings,
                 transcriptions, promoter, reader, started>>

\* XREADGROUP '>' of the main loop returns one new entry, which thereby
\* enters the pending entries list (batches are taken one entry at a time).
xreadgroup(msg) ==
  /\ loop.pc = "idle"
  /\ consumer.pc = "idle"
  /\ Cardinality(delivered) < MaxMessages
  /\ msg \in StreamMessages
  /\ LET id == Cardinality(delivered) + 1 IN
     /\ delivered' = delivered \cup
          {[id |-> id, msg |-> msg, stale |-> FALSE, acked |-> FALSE]}
     /\ loop' = [loop EXCEPT !.pc = "process", !.id = id,
                             !.n0 = consumer.n]
  /\ UNCHANGED <<manager, now, consumer, segments, ttl, active_meetings,
                 transcriptions, promoter, reader, started>>

\* The reading code has an entry in hand whose processing has not begun /
\* has returned.
Taken ==
  /\ loop.pc = "process"
  /\ consumer.pc = "idle"
  /\ consumer.n = loop.n0

Returned ==
  /\ consumer.pc = "idle"
  /\ consumer.n > loop.n0

\* should_ack = await process_stream_message(message_id, message_data), for
\* each kind of entry in hand.
process_transcription ==
  /\ Taken
  /\ LET msg == Msg(loop.id) IN
     /\ msg.form = "ok" /\ msg.type = "transcription"
     /\ consume_transcription("u1", msg.k, msg.uid, StreamSpan, msg.text)

process_session_start ==
  /\ Taken
  /\ LET msg == Msg(loop.id) IN
     /\ msg.form = "ok" /\ msg.type = "session_start"
     /\ consume_session_start("u1", msg.k, msg.uid, 0)

process_malformed ==
  /\ Taken
  /\ consume_malformed(Msg(loop.id).form)

process_db_error ==
  /\ Taken
  /\ Msg(loop.id).form \in {"ok", "bad_token"}
  /\ consume_db_error

\* Mutant of xack: the entry is acknowledged whatever was returned.
xack_always(ok) ==
  /\ loop.pc = "process"
  /\ Returned
  /\ ~consumer.ret => ok
  /\ delivered' = Acked(loop.id, ok)
  /\ loop' = [loop EXCEPT !.pc = "idle", !.id = 0]
  /\ UNCHANGED <<manager, now, consumer, segments, ttl, active_meetings,
                 transcriptions, promoter, reader, started>>

\* The end of a batch of the main loop: XACK of the entry when True was
\* returned for it (an XACK that fails is logged), nothing otherwise.
xack(ok) ==
  /\ loop.pc = "process"
  /\ Returned
  /\ ~consumer.ret => ok
  /\ delivered' = Acked(loop.id, consumer.ret /\ ok)
  /\ loop' = [loop EXCEPT !.pc = "idle", !.id = 0]
  /\ UNCHANGED <<manager, now, consumer, segments, ttl, active_meetings,
                 transcriptions, promoter, reader, started>>

\* PENDING_MSG_TIMEOUT_MS goes by: every pending entry has been idle for
\* longer than the timeout.
PendingIdle ==
  /\ \E e \in PEL : ~e.stale
  /\ delivered' = {IF e.acked THEN e ELSE [e EXCEPT !.stale = TRUE] :
                     e \in delivered}
  /\ UNCHANGED <<manager, now, consumer, loop, segments, ttl,
                 active_meetings, transcriptions, promoter, reader, started>>

\* The service is stopped and started again: shutdown cancels the consumer
\* and promoter tasks, startup begins with claim_stale_messages.
MaxRestarts == 1

restart ==
  /\ loop.restarts < MaxRestarts
  /\ consumer' = [IdleConsumer EXCEPT !.n = consumer.n, !.ret = consumer.ret]
  /\ promoter' = IdlePromoter
  /\ reader' = IdleReader
  /\ loop' = [IdleLoop EXCEPT !.pc = "cl_pending",
                              !.restarts = loop.restarts + 1]
  /\ UNCHANGED <<manager, now, delivered, segments, ttl, active_meetings,
                 transcriptions, started>>

\* count= of xpending_range (100 in the code).
XPENDING_COUNT == 1

\* xpending_range(min='-', max='+', count): the first entries of the list.
FirstPending(count) ==
  {e \in PEL : Cardinality({f \in PEL : f.id < e.id}) < count}

\* claim_stale_messages: one xpending_range, the entries idle for longer
\* than the timeout, XCLAIM of those (which resets their idle time).  The
\* client decodes responses, so the first message_id_bytes.decode raises
\* AttributeError, which ends the check as a bus error does: no claimed
\* entry is processed.  startup then creates the promoter and consumer
\* tasks.
cl_claim(ok) ==
  /\ loop.pc = "cl_pending"
  /\ LET stale == IF ok THEN {e \in FirstPending(XPENDING_COUNT) : e.stale}
                  ELSE {} IN
     delivered' = {IF e \in stale THEN [e EXCEPT !.stale = FALSE] ELSE e :
                     e \in delivered}
  /\ loop' = [loop EXCEPT !.pc = "idle"]
  /\ UNCHANGED <<manager, now, consumer, segments, ttl, active_meetings,
                 transcriptions, promoter, reader, started>>

\* The collector reading the stream, with restarts; the promoter and the
\* clocks of the hash stand still.
NextStream ==
  \/ \E msg \in StreamMessages : xreadgroup(msg)
  \/ process_transcription
  \/ process_session_start
  \/ process_malformed
  \/ process_db_error
  \/ \E ok \in BOOLEAN : co_store(ok)
  \/ \E ok \in BOOLEAN : co_session(ok)
  \/ \E ok \in BOOLEAN : xack(ok)
  \/ PendingIdle
  \/ restart
  \/ \E ok \in BOOLEAN : cl_claim(ok)

SpecStream == InitSegments /\ [][NextStream]_vars

\* The consumer is an asyncio task that runs whenever it can and time goes
\* on; nothing in the code restarts the service or makes messages arrive.
FairStream ==
  /\ WF_vars(process_transcription)
  /\ WF_vars(process_session_start)
  /\ WF_vars(process_malformed)
  /\ WF_vars(\E ok \in BOOLEAN : co_store(ok))
  /\ WF_vars(\E ok \in BOOLEAN : co_session(ok))
  /\ WF_vars(\E ok \in BOOLEAN : xack(ok))
  /\ WF_vars(PendingIdle)
  /\ WF_vars(\E ok \in BOOLEAN : cl_claim(ok))

SpecStreamLive == InitSegments /\ [][NextStream]_vars /\ FairStream

\* The collector reading the stream while the relational store answers
\* every lookup.
NextStreamUp ==
  \/ \E msg \in StreamMessages : xreadgroup(msg)
  \/ process_transcription
  \/ process_session_start
  \/ process_malformed
  \/ \E ok \in BOOLEAN : co_store(ok)
  \/ \E ok \in BOOLEAN : co_session(ok)
  \/ \E ok \in BOOLEAN : xack(ok)
  \/ PendingIdle
  \/ restart
  \/ \E ok \in BOOLEAN : cl_claim(ok)

SpecStreamUp == InitSegments /\ [][NextStreamUp]_vars

\* The main loop reading transcription messages while the promoter runs and
\* time goes by.
NextPromoted ==
  \/ \E msg \in {x \in StreamMessages : x.type = "transcription"} :
       xreadgroup(msg)
  \/ process_transcription
  \/ process_db_error
  \/ \E ok \in BOOLEAN : co_store(ok)
  \/ \E ok \in BOOLEAN : xack(ok)
  \/ Elapse
  \/ pr_wake
  \/ \E m \in active_meetings : pr_read(m)
  \/ pr_srem
  \/ \E ok \in BOOLEAN : pr_commit(ok)
  \/ \E m \in 1..MaxMeetings : pr_delete(m)

SpecPromoted == InitSegments /\ [][NextPromoted]_vars

\* ------------------------------------------------------------- properties
\* C1: at no time does the engine run more bot containers labelled with a
\* user's id than that user's max_concurrent_bots, however the request_bot
\* calls of the user interleave.
ConcurrencyLimitHolds ==
  \A u \in Users : Cardinality(ListRunning(u)) <= max_concurrent_bots(u)

\* Two request_bot calls are in flight, one has started its container and
\* the other has just been refused by the limit check.
ConcurrencyLimitWitness ==
  \E h, g \in Handlers :
    /\ h # g
    /\ handlers[h].pc = "rb_active"
    /\ handlers[g].op = "request_bot" /\ handlers[g].outcome = "limit"
    /\ Cardinality(ListRunning(handlers[g].user)) =
         max_concurrent_bots(handlers[g].user)

\* C2: a Meeting row whose status is completed, failed or error keeps that
\* status in every later step (callbacks, stop_bot, request_bot in flight).
TerminalStatusIsFinal ==
  [][\A m \in DOMAIN meetings :
       meetings[m].status \in Terminal
         => meetings'[m].status = meetings[m].status]_vars

\* C3: the commit of an exit callback that resolved its connection id to a
\* meeting in status active or stopping leaves the row completed for exit
\* code 0 and failed otherwise, with end_time set.
ExitCallbackFinishesMeeting ==
  [][\A h \in Handlers :
       ( /\ handlers[h].pc = "cb_commit"
         /\ handlers'[h].pc = "cb_refresh"
         /\ handlers[h].seen \in {"active", "stopping"} )
       => LET row == meetings'[handlers[h].mid] IN
          /\ row.status =
               (IF handlers[h].exit_code = 0 THEN "completed" ELSE "failed")
          /\ row.end_time]_vars

\* A callback with a non-zero exit code has committed on a meeting it found
\* in status stopping.
ExitCallbackWitness ==
  \E h \in Handlers :
    /\ handlers[h].pc = "cb_refresh"
    /\ handlers[h].seen = "stopping"
    /\ handlers[h].exit_code = 1
    /\ meetings[handlers[h].mid].status = "failed"
    /\ meetings[handlers[h].mid].end_time

\* The transitions section 4.3.6 of the specification draws.
DrawnEdges ==
  {<<"requested", "active">>, <<"requested", "error">>,
   <<"active", "stopping">>, <<"active", "completed">>,
   <<"active", "failed">>, <<"active", "error">>,
   <<"stopping", "completed">>, <<"stopping", "failed">>}

UndrawnEdges ==
  {<<"requested", "failed">>, <<"requested", "completed">>,
   <<"stopping", "error">>}

NoContainerFor(m) == \A c \in DOMAIN containers : containers[c].meeting # m

NoSessionFor(m) ==
  /\ \A i \in DOMAIN sessions : sessions[i].meeting_id # m
  /\ \A t \in tasks : ~(t.kind = "session" /\ t.a = m)

\* C5 as written: a request_bot refused by the limit check has inserted no
\* Meeting row.
LimitRejectionInsertsNoRow ==
  /\ \A h \in Handlers : handlers[h].outcome = "limit" => handlers[h].mid = 0
  /\ last.outcome = "limit" => last.mid = 0

\* C5: a request_bot that reaches the limit check while the engine lists at
\* least max_concurrent_bots running containers of the user creates and
\* starts no container and is answered 403; the Meeting row it inserted
\* before the check is left in status error, or failed when the duplicate
\* check of a concurrent request_bot marked it so.
LimitRejectionLeavesErrorRow ==
  /\ [](/\ \A h \in Handlers :
             handlers[h].outcome = "limit"
               => /\ handlers[h].resp = 403
                  /\ handlers[h].mid \in DOMAIN meetings
                  /\ NoContainerFor(handlers[h].mid)
                  /\ NoSessionFor(handlers[h].mid)
        /\ last.outcome = "limit"
             => /\ last.resp = 403
                /\ last.mid \in DOMAIN meetings
                /\ meetings[last.mid].status \in {"error", "failed"}
                /\ ~meetings[last.mid].start_time
                /\ NoContainerFor(last.mid)
                /\ NoSessionFor(last.mid))
  /\ [][\A h \in Handlers :
          ( /\ handlers[h].pc = "rb_launch"
            /\ handlers'[h].pc # "rb_launch"
            /\ Cardinality(ListRunning(handlers[h].user))
                 >= max_concurrent_bots(handlers[h].user) )
          => /\ containers' = containers
             /\ tasks' = tasks
             /\ meetings' = meetings
             /\ (IF handlers'[h].pc = "rb_error"
                   THEN handlers'[h].outcome ELSE last'.outcome)
                  \in {"limit", "list_error"}]_vars

\* A request_bot was answered 403 while a container of the user was running,
\* and its row is in status error.
LimitRejectionWitness ==
  /\ last.op = "request_bot" /\ last.resp = 403 /\ last.outcome = "limit"
  /\ meetings[last.mid].status = "error"
  /\ \E c \in ListRunning(meetings[last.mid].user) :
       containers[c].meeting # last.mid

\* C6: when the duplicate check finds a row with a container id and the
\* engine reports that container running, request_bot answers 409 (500 only
\* when the engine call itself fails), inserts no row and changes no row,
\* session, container or scheduled task.
RunningDuplicateRefused ==
  [][\A h \in Handlers :
       ( /\ handlers[h].pc = "rb_verify"
         /\ handlers'[h].pc # "rb_verify"
         /\ handlers[h].ecid \in DOMAIN containers
         /\ containers[handlers[h].ecid].state = "running" )
       => /\ handlers'[h].pc = "idle"
          /\ last'.op = "request_bot"
          /\ last'.mid = 0
          /\ \/ last'.resp = 409 /\ last'.outcome = "duplicate"
             \/ last'.resp = 500 /\ last'.outcome = "verify_error"
          /\ UNCHANGED <<meetings, sessions, containers, tasks,
                         published>>]_vars

\* A request_bot was answered 409 and the row it collided with is still
\* non-terminal with its container running.
RunningDuplicateWitness ==
  /\ last.op = "request_bot" /\ last.resp = 409 /\ last.outcome = "duplicate"
  /\ \E m \in DOMAIN meetings :
       /\ meetings[m].status \in NonTerminal
       /\ meetings[m].cid \in DOMAIN containers
       /\ containers[meetings[m].cid].state = "running"

\* C7: when the duplicate check finds a row without a container id, or with
\* one the engine reports not running, request_bot sets that row to failed
\* and inserts a new requested row; the new row, never the old one, is the
\* meeting of the bot it then starts.
StaleRowFailedAndReplaced ==
  /\ [](\A h \in Handlers :
          (handlers[h].op = "request_bot" /\ handlers[h].mid # 0)
            => /\ handlers[h].mid # handlers[h].existing
               /\ handlers[h].cid # 0
                    => containers[handlers[h].cid].meeting = handlers[h].mid)
  /\ [][\A h \in Handlers :
          /\ ( /\ handlers[h].pc = "idle"
               /\ handlers'[h].op = "request_bot"
               /\ handlers'[h].existing # 0
               /\ meetings[handlers'[h].existing].cid = 0 )
             => handlers'[h].pc = "rb_mark"
          /\ ( /\ handlers[h].pc = "rb_verify"
               /\ handlers'[h].pc \notin {"rb_verify", "idle"} )
             => /\ handlers'[h].pc = "rb_mark"
                /\ containers[handlers[h].ecid].state # "running"
          /\ ( /\ handlers[h].pc = "rb_mark"
               /\ handlers'[h].pc # "rb_mark" )
             => /\ meetings'[handlers[h].existing].status = "failed"
                /\ handlers'[h].pc = "rb_insert"
          /\ ( /\ handlers[h].pc = "rb_insert"
               /\ handlers'[h].pc # "rb_insert" )
             => /\ Len(meetings') = Len(meetings) + 1
                /\ handlers'[h].mid = Len(meetings')
                /\ meetings'[Len(meetings')].status = "requested"
                /\ \A m \in DOMAIN meetings : meetings'[m] = meetings[m]]_vars

\* A request_bot found a row whose container had gone, and has started a bot
\* for a new row while the old row is failed.
StaleRowWitness ==
  \E h \in Handlers :
    /\ handlers[h].pc = "rb_active"
    /\ handlers[h].existing # 0
    /\ handlers[h].ecid # 0
    /\ meetings[handlers[h].existing].status = "failed"
    /\ handlers[h].mid # handlers[h].existing
    /\ containers[handlers[h].cid].meeting = handlers[h].mid

\* C8: an active Meeting row has a container id, and it is the id of the
\* container that was created and started for that very row.
ActiveHasOwnContainer ==
  \A m \in DOMAIN meetings :
    meetings[m].status = "active"
      => /\ meetings[m].cid \in DOMAIN containers
         /\ containers[meetings[m].cid].meeting = m
         /\ containers[meetings[m].cid].state # "created"

\* Two rows have been made active, each with its own container.
ActiveHasOwnContainerWitness ==
  \E m, n \in DOMAIN meetings :
    /\ m # n
    /\ meetings[m].status = "active"
    /\ meetings[n].start_time
    /\ meetings[m].cid # 0 /\ meetings[n].cid # 0
    /\ meetings[m].cid # meetings[n].cid

\* C9 as written: the running list of the user of an active meeting always
\* holds the meeting's container id.
ActiveContainerListed ==
  \A m \in DOMAIN meetings :
    meetings[m].status = "active"
      => meetings[m].cid \in ListRunning(meetings[m].user)

\* C9: the running list of the user of an active meeting holds the
\* meeting's container id for as long as that container has not exited.
ActiveContainerListedUntilExit ==
  \A m \in DOMAIN meetings :
    ( /\ meetings[m].status = "active"
      /\ ~( /\ meetings[m].cid \in DOMAIN containers
            /\ containers[meetings[m].cid].state = "exited" ) )
      => meetings[m].cid \in ListRunning(meetings[m].user)

\* An active meeting whose container is in the running list of its user.
ActiveContainerListedWitness ==
  \E m \in DOMAIN meetings :
    /\ meetings[m].status = "active"
    /\ meetings[m].cid \in ListRunning(meetings[m].user)
    /\ last.op = "request_bot" /\ last.resp = 201 /\ last.mid = m

\* Outcomes of start_bot_container after which it returns no container id.
LaunchFailures == {"create_error", "start_error"}

\* C10: once a request_bot whose create call or start call failed has
\* answered, it has answered 500 and the row it inserted is in status error,
\* was never made active and has no MeetingSession row, inserted or scheduled.
LaunchFailureEndsInError ==
  last.outcome \in LaunchFailures
    => /\ last.resp = 500
       /\ meetings[last.mid].status = "error"
       /\ ~meetings[last.mid].start_time
       /\ NoSessionFor(last.mid)

\* C11: a stop_bot that found an active meeting with container id c is
\* followed by a delayed stop of c being scheduled (which the event loop then
\* runs, calling the driver's stop on c).
StopReachesDriver ==
  \A h \in Handlers : \A c \in 1..MaxMeetings :
    (handlers[h].pc = "sb_session" /\ handlers[h].cid = c)
      ~> (Task("stop", c, 0) \in tasks)

CommandsGoToLaunchUid ==
  [][\A p \in published' \ published :
       LET launch_uid == containers[meetings[p.mid].cid].uid IN
       find_session(p.mid, launch_uid) # 0 => p.channel = launch_uid]_vars

\* C14: once the consumer is done with a session_start event (uid U,
\* timestamp T), the MeetingSession row of U exists and holds T, however the
\* event interleaves with the manager's placeholder insertion for U.
SessionStartTimeKept ==
  \A u \in SessionUids :
    (started[u] >= 0 /\ ~(consumer.pc = "co_session" /\ consumer.uid = u)) =>
      \E i \in DOMAIN sessions :
        /\ sessions[i].session_uid = u
        /\ sessions[i].session_start_time = started[u]

\* C15: once the consumer has stopped writing to a meeting's hash, the
\* promoter empties the hash and takes the meeting out of active_meetings
\* within finitely many cycles, whatever the hash holds (segments the filter
\* keeps or rejects).
HashesDrain ==
  \A m \in 1..MaxMeetings : <>[](Hash(m) = {} /\ m \notin active_meetings)

\* C16: whenever a segment key is both a field of the hash of a meeting and
\* the start_time of a Transcription row of that meeting, the text in the
\* hash is the text of the row.
HashAgreesWithRows ==
  \A e \in segments : \A i \in DOMAIN transcriptions :
    (transcriptions[i].meeting_id = e.meeting
       /\ transcriptions[i].start_time = e.key)
    => transcriptions[i].text = e.text

\* C17: no two Transcription rows have the same meeting_id, start_time and
\* session_uid, also when a segment is sent again after it was promoted.
NoDuplicateRows ==
  \A i, j \in DOMAIN transcriptions :
    (/\ transcriptions[i].meeting_id = transcriptions[j].meeting_id
     /\ transcriptions[i].start_time = transcriptions[j].start_time
     /\ transcriptions[i].session_uid = transcriptions[j].session_uid)
    => i = j

\* C18: every Transcription row has 0 <= start_time <= end_time, and its
\* session_uid is that of a MeetingSession row of the same meeting.
RowsWellFormed ==
  \A i \in DOMAIN transcriptions :
    LET r == transcriptions[i] IN
    /\ 0 <= r.start_time
    /\ Thirds * r.start_time <= r.end_time
    /\ find_session(r.meeting_id, r.session_uid) # 0

\* The message the consumer is about to store is valid: its uid is that of a
\* MeetingSession row of the meeting and 0 <= start <= end.
ValidInHand ==
  /\ consumer.pc = "co_store"
  /\ find_session(consumer.mid, consumer.uid) # 0
  /\ 0 <= consumer.start /\ consumer.start <= consumer.end_time

\* The consumer stores the message it has in hand.
Stores == consumer.pc = "co_store" /\ NewField \in segments'

\* The list a transcript read of meeting m returns when nothing happens
\* between its queries.
ReadNow(m) ==
  Assemble(session_times(m), RowsRead(m, Len(transcriptions)), Hash(m))

BufferedSegmentsReturned ==
  reader.pc = "rd_hash" =>
    \A e \in Hash(reader.mid) :
      (e.session_uid > 0 /\ HasSession(reader.session_times, e.session_uid)) =>
        \E i \in DOMAIN Response :
          /\ Response[i].text = e.text
          /\ Response[i].start_time = e.key
          /\ Response[i].absolute_start_time =
               SessionStart(reader.session_times, e.session_uid) + e.key

InAbsoluteOrder(list) ==
  \A i, j \in DOMAIN list :
    i < j => list[i].absolute_start_time <= list[j].absolute_start_time

\* C20: the list a transcript read returns is in non-decreasing order of
\* absolute start time (session_start_time of the segment's session plus
\* relative start), whatever sessions and segments it has read.
TranscriptInAbsoluteOrder ==
  /\ reader.pc = "rd_hash" => InAbsoluteOrder(Response)
  /\ \A m \in DOMAIN meetings : InAbsoluteOrder(ReadNow(m))

\* A read answers with segments of both sessions, the one of the earlier
\* session first although its relative start is the greater.
TranscriptOrderWitness ==
  /\ reader.pc = "rd_hash"
  /\ Len(Response) = 2
  /\ Response[1].start_time > Response[2].start_time
  /\ Response[1].absolute_start_time < Response[2].absolute_start_time
  /\ \E e, f \in Hash(reader.mid) :
       e.session_uid = NewConnectionId(1) /\ f.session_uid = ReconnectUid

\* C21: a read that is about to answer returns every hash field whose stored
\* session_uid is a platform prefix followed by the uid U of a session row it
\* has read, with absolute start = session_start_time(U) + relative start.
PrefixedSegmentsMatched ==
  reader.pc = "rd_hash" =>
    \A e \in Hash(reader.mid) : \A u \in SessionUids :
      (e.session_uid = WithPrefix(u) /\ HasSession(reader.session_times, u)) =>
        \E i \in DOMAIN Response :
          /\ Response[i].text = e.text
          /\ Response[i].start_time = e.key
          /\ Response[i].absolute_start_time =
               SessionStart(reader.session_times, u) + e.key

\* A read is about to answer while the hash holds a field stored under the
\* prefixed uid of the later session (start 2), and answers with it.
PrefixedSegmentsWitness ==
  /\ reader.pc = "rd_hash"
  /\ \E e \in Hash(reader.mid) :
       /\ e.session_uid = WithPrefix(ReconnectUid)
       /\ \E i \in DOMAIN Response :
            /\ Response[i].text = e.text
            /\ Response[i].start_time = e.key
            /\ Response[i].absolute_start_time = 2 + e.key

\* The number of times run() of file f has been awaited.
TimesRun(f) == Cardinality({j \in DOMAIN runner.ran : runner.ran[j] = f})

StopRequestsSerialized ==
  \A h1, h2 \in Handlers :
    (/\ h1 # h2
     /\ handlers[h1].op = "stop_bot" /\ handlers[h2].op = "stop_bot"
     /\ handlers[h1].pc \in {"sb_session", "sb_commit"}
     /\ handlers[h2].pc \in {"sb_session", "sb_commit"})
    => handlers[h1].mid # handlers[h2].mid

\* C24: a field the consumer wrote while a promoter cycle was under way is
\* not lost to that cycle: what the promoter's HDEL removes from a hash are
\* fields older than the cutoff (those it read), never a field or revision
\* written since.
WritesSurviveCycle ==
  [][(promoter.pc = "pr_delete" /\ promoter' # promoter) =>
       \A e \in segments :
         (\A f \in segments' : <<f.meeting, f.key>> # <<e.meeting, e.key>>)
           => e.age > IMMUTABILITY_THRESHOLD]_vars

\* The fields a promoter cycle has found older than the cutoff: those marked
\* so far and, at the read of the last meeting, the aged fields of its hash.
FoundAged ==
  promoter.del \cup
    (IF promoter.pc = "pr_read"
       THEN {<<e.meeting, e.key>> : e \in
               Aged({f \in segments : f.meeting \in promoter.todo})}
       ELSE {})

\* C30: when a promoter cycle ends without a failed commit, no field it found
\* older than the cutoff is left in its hash, whether the text filter kept
\* it or not.
AgedFieldsDeleted ==
  [][(promoter.pc \in {"pr_read", "pr_srem", "pr_delete"}
        /\ promoter'.pc = "sleep") =>
       \A d \in FoundAged :
         ~ \E f \in segments' :
             /\ <<f.meeting, f.key>> = d
             /\ f.age > IMMUTABILITY_THRESHOLD]_vars

\* A message process_stream_message cannot do anything with: malformed, or
\* for a meeting that does not exist.
Unrecoverable(msg) ==
  msg.form \in Malformed \/ latest_meeting("u1", msg.k) = 0

\* What a message asks for is in the stores.
Applied(msg) ==
  LET m == latest_meeting("u1", msg.k) IN
  IF msg.type = "transcription"
    THEN \E e \in Hash(m) :
           /\ e.key = StartKey(StreamSpan[1])
           /\ e.text = msg.text
           /\ e.session_uid = msg.uid
    ELSE \E i \in DOMAIN sessions :
           /\ sessions[i].meeting_id = m
           /\ sessions[i].session_uid = msg.uid
           /\ sessions[i].session_start_time = 0

\* C25: an entry leaves the pending list only when its message is
\* unrecoverable or has been applied to the stores; and an entry for which
\* process_stream_message returned False (bus or relational-store error) is
\* still pending when the reading code moves on.
AckOnlyAfterProcessing ==
  [][/\ \A e \in PEL :
          (\E f \in delivered' : f.id = e.id /\ f.acked)
            => (Unrecoverable(e.msg) \/ Applied(e.msg))
     /\ (loop.id # 0 /\ Returned /\ ~consumer.ret)
          => \E e \in PEL' : e.id = loop.id]_vars

\* The main loop is back at its read with one entry acknowledged after its
\* segment was stored and another left pending after a failed store.
AckOnlyAfterProcessingWitness ==
  /\ loop.pc = "idle" /\ loop.restarts = 0
  /\ \E e \in delivered : e.acked /\ ~Unrecoverable(e.msg) /\ Applied(e.msg)
  /\ \E e \in PEL : e.msg.type = "transcription" /\ e.msg.uid # 0
                      /\ ~Unrecoverable(e.msg) /\ ~Applied(e.msg)

\* C26: an entry the main loop left pending (its message neither malformed
\* nor without uid, so that processing it again can succeed) is in the end
\* acknowledged.
PendingEventuallyAcked ==
  \A i \in 1..MaxMessages :
    (\E e \in PEL : /\ e.id = i
                    /\ loop.id # i /\ loop.restarts = 0
                    /\ e.msg.form = "ok"
                    /\ e.msg.uid # 0)
      ~> (\E e \in delivered : e.id = i /\ e.acked)

\* C27: the startup check does not end in the step that finds pending
\* entries idle for longer than the timeout: it goes on to process them.
StaleEntriesProcessed ==
  [][(loop.pc = "cl_pending" /\ loop'.pc = "idle")
       => \A e \in PEL : ~e.stale]_vars

\* C28: while the main loop has an unrecoverable message in hand, no step
\* writes a hash field, a member of active_meetings or a MeetingSession row;
\* its processing, unless the lookup itself fails, returns True at once, and
\* the XACK that follows takes the entry off the pending list.
UnrecoverableAckedUnchanged ==
  [][(loop.pc = "process" /\ Unrecoverable(Msg(loop.id))) =>
       /\ UNCHANGED <<segments, ttl, active_meetings, sessions,
                      transcriptions>>
       /\ (consumer'.n > consumer.n /\ ~process_db_error)
            => (consumer'.pc = "idle" /\ consumer'.ret)
       /\ (Returned /\ consumer.ret /\ loop'.pc = "idle"
             /\ delivered' # delivered)
            => \E e \in delivered' : e.id = loop.id /\ e.acked]_vars

\* Two unrecoverable messages, one malformed and one for a meeting that
\* does not exist, have been acknowledged and the stores are as they were.
UnrecoverableAckedWitness ==
  /\ \E e \in delivered : e.acked /\ e.msg.form \in Malformed
  /\ \E e \in delivered :
       e.acked /\ e.msg.form = "ok" /\ latest_meeting("u1", e.msg.k) = 0
  /\ segments = {} /\ active_meetings = {}
  /\ Len(sessions) = 2

\* C29: when two transcription messages for the same meeting and segment
\* key have both been acknowledged and no later message was delivered, the
\* stored segment, hash field or else the last promoted row of that key,
\* has the text of the later of the two.
LaterTextStored ==
  \A a, b \in delivered :
    (/\ a.acked /\ b.acked /\ a.id < b.id
     /\ a.msg.type = "transcription" /\ b.msg.type = "transcription"
     /\ a.msg.k = b.msg.k
     /\ latest_meeting("u1", b.msg.k) # 0
     /\ ~ \E c \in delivered : c.id > b.id)
    => LET m == latest_meeting("u1", b.msg.k)
           key == StartKey(StreamSpan[1])
           fields == {e \in Hash(m) : e.key = key}
           rows == {i \in DOMAIN transcriptions :
                      /\ transcriptions[i].meeting_id = m
                      /\ transcriptions[i].start_time = key}
       IN /\ \A e \in fields : e.text = b.msg.text
          /\ (fields = {} /\ rows # {})
               => transcriptions[Max(rows)].text = b.msg.text

\* C31: a commit step of the promoter that adds no row (the commit failed)
\* deletes no hash field and ends the cycle with nothing marked for
\* deletion, so every field of the batch that was in its hash is still
\* there.
FailedCommitKeepsFields ==
  [][(promoter.pc = "pr_commit" /\ promoter' # promoter
        /\ transcriptions' = transcriptions) =>
       /\ segments' = segments
       /\ promoter' = IdlePromoter
       /\ \A i \in DOMAIN promoter.batch :
            (\E e \in segments : /\ e.meeting = promoter.batch[i].meeting_id
                                 /\ e.key = promoter.batch[i].start_time)
            => (\E e \in segments' :
                  /\ e.meeting = promoter.batch[i].meeting_id
                  /\ e.key = promoter.batch[i].start_time)]_vars

\* The promoter is about to commit a batch whose field is in the hash of
\* meeting 1; the commit may fail.
FailedCommitWitness ==
  /\ promoter.pc = "pr_commit"
  /\ \E i \in DOMAIN promoter.batch : \E e \in Hash(1) :
       /\ promoter.batch[i].meeting_id = 1
       /\ e.key = promoter.batch[i].start_time
       /\ e.text = promoter.batch[i].text
  /\ ENABLED pr_commit(FALSE)

\* The rows a step adds to the promoter's batch.
NewInBatch ==
  {promoter'.batch[i] : i \in DOMAIN promoter'.batch \ DOMAIN promoter.batch}

\* C32: every row the promoter puts into its batch is built from a field
\* that is older than the threshold at that read, no row is built for a field
\* that is not, and the rows a commit adds are those of the batch.
OnlySettledFieldsPromoted ==
  [][/\ \A r \in NewInBatch : \E e \in segments :
          /\ e.meeting = r.meeting_id /\ e.key = r.start_time
          /\ e.text = r.text
          /\ e.age > IMMUTABILITY_THRESHOLD
     /\ \A e \in segments :
          e.age <= IMMUTABILITY_THRESHOLD =>
            ~ \E r \in NewInBatch :
                r.meeting_id = e.meeting /\ r.start_time = e.key
     /\ transcriptions' # transcriptions =>
          transcriptions' = transcriptions \o promoter.batch]_vars

\* The promoter has read a hash with a settled field, now in its batch, and
\* a fresh one, which is not.
OnlySettledWitness ==
  /\ promoter.pc = "pr_commit"
  /\ \E e, f \in Hash(1) :
       /\ e.age > IMMUTABILITY_THRESHOLD /\ f.age <= IMMUTABILITY_THRESHOLD
       /\ \E i \in DOMAIN promoter.batch : promoter.batch[i].start_time = e.key
       /\ ~ \E i \in DOMAIN promoter.batch : promoter.batch[i].start_time = f.key

\* C33: a read that is about to answer has, for every key that is both the
\* start_time of a Transcription row it has read and a field of the hash,
\* exactly one segment of that key, with the text of the hash field.
HashTextWins ==
  reader.pc = "rd_hash" =>
    \A e \in Hash(reader.mid) :
      (\E i \in DOMAIN RowsRead(reader.mid, reader.rows) :
         RowsRead(reader.mid, reader.rows)[i].start_time = e.key) =>
        /\ Cardinality({i \in DOMAIN Response :
                          Response[i].start_time = e.key}) = 1
        /\ \A i \in DOMAIN Response :
             Response[i].start_time = e.key => Response[i].text = e.text

\* C33, amended: the same, for the hash fields whose session_uid, without
\* its platform prefix, is the uid of a session row the read has loaded.
HashTextWinsWithSession ==
  reader.pc = "rd_hash" =>
    \A e \in Hash(reader.mid) :
      (/\ HasSession(reader.session_times, StripPrefix(e.session_uid))
       /\ \E i \in DOMAIN RowsRead(reader.mid, reader.rows) :
            RowsRead(reader.mid, reader.rows)[i].start_time = e.key) =>
        /\ Cardinality({i \in DOMAIN Response :
                          Response[i].start_time = e.key}) = 1
        /\ \A i \in DOMAIN Response :
             Response[i].start_time = e.key => Response[i].text = e.text

\* A read is about to answer; it has read a row with a session, and the hash
\* has a field of the same key, with a session and another text.
HashTextWinsWitness ==
  /\ reader.pc = "rd_hash"
  /\ \E e \in Hash(reader.mid) :
       /\ HasSession(reader.session_times, StripPrefix(e.session_uid))
       /\ \E i \in DOMAIN RowsRead(reader.mid, reader.rows) :
            LET r == RowsRead(reader.mid, reader.rows)[i] IN
            /\ r.start_time = e.key /\ r.text # e.text
            /\ HasSession(reader.session_times, r.session_uid)

\* C34: when the consumer stores a segment, every field of the hash that
\* belongs to another session is still in the hash afterwards, whatever its
\* relative start.
OtherSessionsFieldsKept ==
  [][(consumer.pc = "co_store" /\ consumer' # consumer) =>
       \A e \in segments :
         StripPrefix(e.session_uid) # StripPrefix(consumer.uid) =>
           \E f \in segments' :
             /\ f.meeting = e.meeting /\ f.key = e.key
             /\ f.session_uid = e.session_uid]_vars

\* C35: for each (user, key) at most one Meeting row is in status requested,
\* active or stopping, and at most one container launched for a meeting of
\* that (user, key) is running.
OneLiveMeetingPerKey ==
  \A u \in Users, k \in Keys :
    /\ Cardinality({i \in DOMAIN meetings :
                      /\ meetings[i].user = u /\ meetings[i].key = k
                      /\ meetings[i].status \in NonTerminal}) <= 1
    /\ Cardinality({c \in DOMAIN containers :
                      /\ containers[c].state = "running"
                      /\ containers[c].meeting \in DOMAIN meetings
                      /\ meetings[containers[c].meeting].user = u
                      /\ meetings[containers[c].meeting].key = k}) <= 1

\* The segments a transcript read of meeting m made in this state returns.
Visible(m) ==
  Merged(session_times(m), RowsRead(m, Len(transcriptions)), Hash(m))

\* C36: when the promoter, after its commit, deletes the fields of a meeting
\* from the hash, every segment a read returned before the deletion is
\* returned after it, with the same text and times.
PromotionKeepsVisible ==
  [][(promoter.pc = "pr_delete" /\ promoter' # promoter) =>
       \A m \in 1..MaxMeetings : \A v \in Visible(m) : v \in Visible(m)']_vars

\* C37: every hash field stored under the uid of a session (with or without
\* platform prefix) is in the hash of the meeting that session belongs to.
FieldsUnderOwnMeeting ==
  \A e \in segments : \A i \in DOMAIN sessions :
    sessions[i].session_uid = StripPrefix(e.session_uid) =>
      e.meeting = sessions[i].meeting_id

\* C38: when the promoter sleeps and meeting 2, in the active set, has an
\* aged field in its hash that the filter and the store accept, then later a
\* Transcription row of meeting 2 has that key, or the field has left the
\* hash; whatever the hash of meeting 1 holds.
OtherMeetingsPromoted ==
  \A k \in {StartKey(3)} :
    (/\ promoter.pc = "sleep" /\ 2 \in active_meetings
     /\ \E e \in Hash(2) :
          /\ e.key = k /\ e.age > IMMUTABILITY_THRESHOLD
          /\ filter_segment(e.text) /\ Len(e.language) <= LANGUAGE_LENGTH)
    ~> (\/ \E i \in DOMAIN transcriptions :
             transcriptions[i].meeting_id = 2 /\ transcriptions[i].start_time = k
        \/ ~ \E e \in Hash(2) : e.key = k)

\* C39: every meeting in status stopping is later completed or failed.
StoppingEventuallyEnds ==
  \A m \in 1..MaxMeetings :
    (m \in DOMAIN meetings /\ meetings[m].status = "stopping")
    ~> (m \in DOMAIN meetings /\ meetings[m].status \in {"completed", "failed"})

\* C40: while the main loop has in hand a well-formed transcription message
\* without uid for an existing meeting, its processing goes on to store
\* the segment (without uid), and when the
\* reading code moves on after a store that went through, the field is in
\* the hash and the entry is acknowledged.
UidlessStoredAndAcked ==
  [][(/\ loop.pc = "process"
      /\ Msg(loop.id).form = "ok" /\ Msg(loop.id).type = "transcription"
      /\ Msg(loop.id).uid = 0
      /\ latest_meeting("u1", Msg(loop.id).k) # 0) =>
       /\ consumer'.n > consumer.n
            => (consumer'.pc = "co_store" /\ consumer'.uid = 0)
       /\ (Returned /\ consumer.ret /\ loop'.pc = "idle"
             /\ delivered' # delivered)
            => /\ Applied(Msg(loop.id))
               /\ \E e \in delivered' : e.id = loop.id /\ e.acked]_vars
====
